---- MODULE Spec2Model ----
(***************************************************************************)
(* ilo-nimi: a generator of pronounceable names.                           *)
(*                                                                         *)
(* src/lib.rs holds the length controller (NameGenerator) and the          *)
(* string-based name builder (name, initial, syllable, nucleus);           *)
(* src/syllable.rs holds the Syllable sampler (Syllable::new) and the      *)
(* per-script renderer (Syllable::write).                                  *)
(*                                                                         *)
(* Characters are one-character strings in the string-based builder and    *)
(* Unicode code points (integers) in the renderer's output buffer.         *)
(* Option<T> is a sequence of length 0 (None) or 1 (Some).                 *)
(***************************************************************************)
EXTENDS Integers, Sequences, FiniteSets, TLC

\* ------------------------------------------------------------------ bounds

\* Largest min_length / max_length the callers of NameGenerator::new pass.
MaxLen == 2

\* Largest value a Poisson sample takes (the distribution is unbounded).
MaxExtra == 1

\* Largest number of syllables of a name built by Syllable::new.
MaxSyl == 3

\* NameGenerator::new is given lengths within NearEdge of either end of u32.
NearEdge == 8

\* ------------------------------------------------------------------ helpers

None == <<>>

Some(x) == <<x>>

IsNone(o) == Len(o) = 0

Last(s) == IF Len(s) = 0 THEN None ELSE Some(s[Len(s)])

\* A u32 is held as the 32-bit integer with the same bit pattern: a value below
\* 2^31 is itself, a value v from 2^31 up is v - 2^32, and u32::MAX is -1.
U32_MAX == 0 - 1

\* The bit pattern of 2^31.
TopBit == (0 - 2147483647) - 1

\* v - 2^31 for a value v from 2^31 up.
Low31(a) == a - TopBit

\* a < b on u32
U32Lt(a, b) == IF (a < 0) = (b < 0) THEN a < b ELSE b < 0

\* a / d on u32, for a divisor d in 2..2^31-1 (2^31 = 2147483647 + 1)
U32Div(a, d) ==
    IF a >= 0 THEN a \div d
    ELSE (Low31(a) \div d) + (2147483647 \div d)
            + (((Low31(a) % d) + (2147483647 % d) + 1) \div d)

\* a % d on u32, for a divisor d in 2..2^31-1
U32Rem(a, d) ==
    IF a >= 0 THEN a % d
    ELSE ((Low31(a) % d) + (2147483647 % d) + 1) % d

\* a + c on u32 for c in 0..2^31-1, wrapped at 2^32 (the result of a release
\* build).
U32Add(a, c) ==
    IF a >= 0 /\ a > 2147483647 - c
    THEN TopBit + ((a - (2147483647 - c)) - 1)
    ELSE a + c

\* a + c does not fit a u32 (c in 0..2^31-1): a debug build panics with
\* "attempt to add with overflow".
AddOverflows(a, c) == a < 0 /\ a + c >= 0

\* a - b on u32, wrapped at 2^32 (the result of a release build).
U32Sub(a, b) ==
    IF a < 0 /\ b >= 0
    THEN IF Low31(a) >= b
         THEN TopBit + (Low31(a) - b)
         ELSE ((Low31(a) - b) + 2147483647) + 1
    ELSE IF a >= 0 /\ b < 0
    THEN IF a > 2147483647 - (0 - (b + 1)) - 1
         THEN TopBit + (a - (2147483647 - (0 - (b + 1))))
         ELSE a + (0 - (b + 1)) + 1
    ELSE a - b

\* a - b is below zero: a debug build panics with "attempt to subtract with
\* overflow".
SubOverflows(a, b) == U32Lt(a, b)

\* u32::div_ceil
DivCeil(a, b) ==
    IF U32Rem(a, b) > 0 THEN U32Div(a, b) + 1 ELSE U32Div(a, b)

LowerCase == <<"a","b","c","d","e","f","g","h","i","j","k","l","m",
               "n","o","p","q","r","s","t","u","v","w","x","y","z">>

UpperCase == <<"A","B","C","D","E","F","G","H","I","J","K","L","M",
               "N","O","P","Q","R","S","T","U","V","W","X","Y","Z">>

\* char::to_ascii_uppercase
ToAsciiUppercase(c) ==
    IF \E k \in 1..26 : LowerCase[k] = c
    THEN UpperCase[CHOOSE k \in 1..26 : LowerCase[k] = c]
    ELSE c

\* ---------------------------------------------------- src/lib.rs: generator

Fixed(n) == [kind |-> "Fixed", min |-> n, lambda |-> 0]

Poisson(m, l) == [kind |-> "Poisson", min |-> m, lambda |-> l]

MinSyllables(min) == DivCeil(min, 3)

\* max_syllables computed with the divisor of min_syllables.
MaxSyllables_ByThree(min, max) ==
    IF IsNone(max) THEN U32Div(U32Add(min, 7), 2) ELSE DivCeil(max[1], 3)

MaxSyllables(min, max) ==
    IF IsNone(max)
    THEN U32Div(U32Add(min, 7), 2)
    ELSE U32Div(U32Add(max[1], 1), 2)

\* NameGenerator::new: the stored syllable-count distribution.
NameGeneratorNew(min, max) ==
    IF MinSyllables(min) = MaxSyllables(min, max)
    THEN Fixed(MinSyllables(min))
    ELSE Poisson(MinSyllables(min),
                 U32Sub(MaxSyllables(min, max), MinSyllables(min)))

\* generate's test with the upper bound off by one.
Accepts_BelowMax(len, min, max) ==
    /\ len >= min
    /\ (IF IsNone(max) THEN TRUE ELSE len < max[1])

\* generate's test without its upper bound.
Accepts_NoMax(len, min, max) ==
    len >= min

\* The acceptance test of generate's loop.
Accepts(len, min, max) ==
    /\ len >= min
    /\ (IF IsNone(max) THEN TRUE ELSE len <= max[1])

\* initial(): rng.random_bool(0.25), in percent.
INITIAL_NUCLEUS_PERCENT == 25

\* nucleus(): rng.random_bool(0.06), in percent.
CODA_PERCENT == 6

\* rng.random_bool(p): the weight of the outcome b, in percent.
BoolWeight(percent, b) == IF b THEN percent ELSE 100 - percent

ONSETS == <<"p", "t", "k", "s", "m", "n", "l", "j", "w">>

NUCLEI == <<"a", "i", "e", "o", "u">>

\* The weight closure of syllable()'s choose_weighted.
OnsetWeight(v, last) ==
    CASE v = "p" -> 61
      [] v = "t" -> 45
      [] v = "k" -> 91
      [] v = "s" -> 64
      [] v = "m" /\ last # Some("n") -> 50
      [] v = "n" /\ last # Some("n") -> 32
      [] v = "l" -> 83
      [] v = "j" -> 35
      [] v = "w" -> 34
      [] OTHER -> 0

\* The weight closure of nucleus() with the weights of 'o' and 'u' exchanged.
NucleusWeight_OUSwapped(v, last) ==
    CASE v = "a" -> 146
      [] v = "e" -> 94
      [] v = "i" /\ last # Some("t") /\ last # Some("j") -> 140
      [] v = "o" /\ last # Some("w") -> 64
      [] v = "u" /\ last # Some("w") -> 88
      [] OTHER -> 0

\* The weight closure of nucleus()'s choose_weighted.
NucleusWeight(v, last) ==
    CASE v = "a" -> 146
      [] v = "e" -> 94
      [] v = "i" /\ last # Some("t") /\ last # Some("j") -> 140
      [] v = "o" /\ last # Some("w") -> 88
      [] v = "u" /\ last # Some("w") -> 64
      [] OTHER -> 0

\* choose_weighted: the items a draw can return are those of positive weight.
OnsetChoices(last) ==
    {ONSETS[k] : k \in {j \in 1..Len(ONSETS) : OnsetWeight(ONSETS[j], last) > 0}}

NucleusChoices(last) ==
    {NUCLEI[k] : k \in {j \in 1..Len(NUCLEI) : NucleusWeight(NUCLEI[j], last) > 0}}

\* buf.push(c) / buf.push(c.to_ascii_uppercase())
PushCased(buf, c, upper) == Append(buf, IF upper THEN ToAsciiUppercase(c) ELSE c)

\* ------------------------------------------------ src/syllable.rs: phonemes

\* Glyphs are Unicode code points. An arm that is `unreachable!()` yields this.
Unreachable == 0

Onsets == {"Null", "P", "T", "K", "S", "M", "N", "L", "J", "W"}

Nuclei == {"A", "E", "I", "O", "U"}

Codas == {"Null", "N"}

\* struct Syllable
SyllableOf(onset, nucleus, coda) ==
    [onset |-> onset, nucleus |-> nucleus, coda |-> coda]

\* The array Onset::random chooses from.
ONSET_ITEMS == <<"P", "T", "K", "S", "M", "N", "L", "J", "W">>

\* The weight closure of Onset::random.
Onset_weight(v) ==
    CASE v = "P" -> 61
      [] v = "T" -> 45
      [] v = "K" -> 91
      [] v = "S" -> 64
      [] v = "M" -> 50
      [] v = "N" -> 32
      [] v = "L" -> 83
      [] v = "J" -> 35
      [] v = "W" -> 34
      [] v = "Null" -> 0

\* Onset::random with Onset::Null among the onsets it can return.
Onset_random_WithNull == Onsets

\* Onset::random: the onsets a draw can return.
Onset_random ==
    {ONSET_ITEMS[k] : k \in {j \in 1..Len(ONSET_ITEMS) : Onset_weight(ONSET_ITEMS[j]) > 0}}

Onset_len(onset) == IF onset = "Null" THEN 0 ELSE 1

\* The array Nucleus::random chooses from.
NUCLEUS_ITEMS == <<"A", "E", "I", "O", "U">>

\* The weights of Nucleus::random without the tests on the onset.
Nucleus_weight_AnyOnset(v, onset) ==
    CASE v = "A" -> 146
      [] v = "E" -> 94
      [] v = "I" -> 140
      [] v = "O" -> 88
      [] v = "U" -> 64
      [] OTHER -> 0

\* The weight closure of Nucleus::random.
Nucleus_weight(v, onset) ==
    CASE v = "A" -> 146
      [] v = "E" -> 94
      [] v = "I" /\ onset # "T" /\ onset # "J" -> 140
      [] v = "O" /\ onset # "W" -> 88
      [] v = "U" /\ onset # "W" -> 64
      [] OTHER -> 0

\* Nucleus::random: the nuclei a draw can return after `onset`.
Nucleus_random(onset) ==
    {NUCLEUS_ITEMS[k] :
        k \in {j \in 1..Len(NUCLEUS_ITEMS) : Nucleus_weight(NUCLEUS_ITEMS[j], onset) > 0}}

Nucleus_len(nucleus) == 1

Nucleus_is_back(nucleus) == nucleus \in {"A", "O", "U"}

\* Coda::random: rng.random_bool(0.1) selects N.
Coda_random(b) == IF b THEN "N" ELSE "Null"

Coda_len(coda) ==
    CASE coda = "Null" -> 0
      [] coda = "N" -> 2

\* Syllable::len
Syllable_len(s) == Onset_len(s.onset) + Nucleus_len(s.nucleus) + Coda_len(s.coda)

\* ------------------------------------------ src/syllable.rs: glyph tables

\* Syllable::hangul_char (char)
Syllable_hangul_char(onset, nucleus, coda) ==
    CASE onset = "Null" /\ nucleus = "A" /\ coda = "Null" -> 50500
      [] onset = "Null" /\ nucleus = "E" /\ coda = "Null" -> 50612
      [] onset = "Null" /\ nucleus = "O" /\ coda = "Null" -> 50724
      [] onset = "Null" /\ nucleus = "U" /\ coda = "Null" -> 50864
      [] onset = "Null" /\ nucleus = "I" /\ coda = "Null" -> 51060
      [] onset = "Null" /\ nucleus = "A" /\ coda = "N" -> 50504
      [] onset = "Null" /\ nucleus = "E" /\ coda = "N" -> 50616
      [] onset = "Null" /\ nucleus = "O" /\ coda = "N" -> 50728
      [] onset = "Null" /\ nucleus = "U" /\ coda = "N" -> 50868
      [] onset = "Null" /\ nucleus = "I" /\ coda = "N" -> 51064
      [] onset = "J" /\ nucleus = "A" /\ coda = "Null" -> 50556
      [] onset = "J" /\ nucleus = "E" /\ coda = "Null" -> 50668
      [] onset = "J" /\ nucleus = "O" /\ coda = "Null" -> 50836
      [] onset = "J" /\ nucleus = "U" /\ coda = "Null" -> 50976
      [] onset = "J" /\ nucleus = "I" /\ coda = "Null" -> Unreachable
      [] onset = "J" /\ nucleus = "A" /\ coda = "N" -> 50560
      [] onset = "J" /\ nucleus = "E" /\ coda = "N" -> 50672
      [] onset = "J" /\ nucleus = "O" /\ coda = "N" -> 50840
      [] onset = "J" /\ nucleus = "U" /\ coda = "N" -> 50980
      [] onset = "J" /\ nucleus = "I" /\ coda = "N" -> Unreachable
      [] onset = "W" /\ nucleus = "A" /\ coda = "Null" -> 50752
      [] onset = "W" /\ nucleus = "E" /\ coda = "Null" -> 50892
      [] onset = "W" /\ nucleus = "O" /\ coda = "Null" -> Unreachable
      [] onset = "W" /\ nucleus = "U" /\ coda = "Null" -> Unreachable
      [] onset = "W" /\ nucleus = "I" /\ coda = "Null" -> 50948
      [] onset = "W" /\ nucleus = "A" /\ coda = "N" -> 50756
      [] onset = "W" /\ nucleus = "E" /\ coda = "N" -> 50896
      [] onset = "W" /\ nucleus = "O" /\ coda = "N" -> Unreachable
      [] onset = "W" /\ nucleus = "U" /\ coda = "N" -> Unreachable
      [] onset = "W" /\ nucleus = "I" /\ coda = "N" -> 50952
      [] onset = "K" /\ nucleus = "A" /\ coda = "Null" -> 44032
      [] onset = "K" /\ nucleus = "E" /\ coda = "Null" -> 44144
      [] onset = "K" /\ nucleus = "O" /\ coda = "Null" -> 44256
      [] onset = "K" /\ nucleus = "U" /\ coda = "Null" -> 44396
      [] onset = "K" /\ nucleus = "I" /\ coda = "Null" -> 44592
      [] onset = "K" /\ nucleus = "A" /\ coda = "N" -> 44036
      [] onset = "K" /\ nucleus = "E" /\ coda = "N" -> 44148
      [] onset = "K" /\ nucleus = "O" /\ coda = "N" -> 44260
      [] onset = "K" /\ nucleus = "U" /\ coda = "N" -> 44400
      [] onset = "K" /\ nucleus = "I" /\ coda = "N" -> 44596
      [] onset = "N" /\ nucleus = "A" /\ coda = "Null" -> 45208
      [] onset = "N" /\ nucleus = "E" /\ coda = "Null" -> 45320
      [] onset = "N" /\ nucleus = "O" /\ coda = "Null" -> 45432
      [] onset = "N" /\ nucleus = "U" /\ coda = "Null" -> 45572
      [] onset = "N" /\ nucleus = "I" /\ coda = "Null" -> 45768
      [] onset = "N" /\ nucleus = "A" /\ coda = "N" -> 45212
      [] onset = "N" /\ nucleus = "E" /\ coda = "N" -> 45324
      [] onset = "N" /\ nucleus = "O" /\ coda = "N" -> 45436
      [] onset = "N" /\ nucleus = "U" /\ coda = "N" -> 45576
      [] onset = "N" /\ nucleus = "I" /\ coda = "N" -> 45772
      [] onset = "T" /\ nucleus = "A" /\ coda = "Null" -> 45796
      [] onset = "T" /\ nucleus = "E" /\ coda = "Null" -> 45908
      [] onset = "T" /\ nucleus = "O" /\ coda = "Null" -> 46020
      [] onset = "T" /\ nucleus = "U" /\ coda = "Null" -> 46160
      [] onset = "T" /\ nucleus = "I" /\ coda = "Null" -> Unreachable
      [] onset = "T" /\ nucleus = "A" /\ coda = "N" -> 45800
      [] onset = "T" /\ nucleus = "E" /\ coda = "N" -> 45912
      [] onset = "T" /\ nucleus = "O" /\ coda = "N" -> 46024
      [] onset = "T" /\ nucleus = "U" /\ coda = "N" -> 46164
      [] onset = "T" /\ nucleus = "I" /\ coda = "N" -> Unreachable
      [] onset = "L" /\ nucleus = "A" /\ coda = "Null" -> 46972
      [] onset = "L" /\ nucleus = "E" /\ coda = "Null" -> 47084
      [] onset = "L" /\ nucleus = "O" /\ coda = "Null" -> 47196
      [] onset = "L" /\ nucleus = "U" /\ coda = "Null" -> 47336
      [] onset = "L" /\ nucleus = "I" /\ coda = "Null" -> 47532
      [] onset = "L" /\ nucleus = "A" /\ coda = "N" -> 46976
      [] onset = "L" /\ nucleus = "E" /\ coda = "N" -> 47088
      [] onset = "L" /\ nucleus = "O" /\ coda = "N" -> 47200
      [] onset = "L" /\ nucleus = "U" /\ coda = "N" -> 47340
      [] onset = "L" /\ nucleus = "I" /\ coda = "N" -> 47536
      [] onset = "M" /\ nucleus = "A" /\ coda = "Null" -> 47560
      [] onset = "M" /\ nucleus = "E" /\ coda = "Null" -> 47672
      [] onset = "M" /\ nucleus = "O" /\ coda = "Null" -> 47784
      [] onset = "M" /\ nucleus = "U" /\ coda = "Null" -> 47924
      [] onset = "M" /\ nucleus = "I" /\ coda = "Null" -> 48120
      [] onset = "M" /\ nucleus = "A" /\ coda = "N" -> 47564
      [] onset = "M" /\ nucleus = "E" /\ coda = "N" -> 47676
      [] onset = "M" /\ nucleus = "O" /\ coda = "N" -> 47788
      [] onset = "M" /\ nucleus = "U" /\ coda = "N" -> 47928
      [] onset = "M" /\ nucleus = "I" /\ coda = "N" -> 48124
      [] onset = "P" /\ nucleus = "A" /\ coda = "Null" -> 48148
      [] onset = "P" /\ nucleus = "E" /\ coda = "Null" -> 48260
      [] onset = "P" /\ nucleus = "O" /\ coda = "Null" -> 48372
      [] onset = "P" /\ nucleus = "U" /\ coda = "Null" -> 48512
      [] onset = "P" /\ nucleus = "I" /\ coda = "Null" -> 48708
      [] onset = "P" /\ nucleus = "A" /\ coda = "N" -> 48152
      [] onset = "P" /\ nucleus = "E" /\ coda = "N" -> 48264
      [] onset = "P" /\ nucleus = "O" /\ coda = "N" -> 48376
      [] onset = "P" /\ nucleus = "U" /\ coda = "N" -> 48516
      [] onset = "P" /\ nucleus = "I" /\ coda = "N" -> 48712
      [] onset = "S" /\ nucleus = "A" /\ coda = "Null" -> 49324
      [] onset = "S" /\ nucleus = "E" /\ coda = "Null" -> 49436
      [] onset = "S" /\ nucleus = "O" /\ coda = "Null" -> 49548
      [] onset = "S" /\ nucleus = "U" /\ coda = "Null" -> 49688
      [] onset = "S" /\ nucleus = "I" /\ coda = "Null" -> 49884
      [] onset = "S" /\ nucleus = "A" /\ coda = "N" -> 49328
      [] onset = "S" /\ nucleus = "E" /\ coda = "N" -> 49440
      [] onset = "S" /\ nucleus = "O" /\ coda = "N" -> 49552
      [] onset = "S" /\ nucleus = "U" /\ coda = "N" -> 49692
      [] onset = "S" /\ nucleus = "I" /\ coda = "N" -> 49888

\* Syllable::ascii_char (char)
Syllable_ascii_char(onset, nucleus, coda) ==
    CASE onset = "Null" /\ nucleus = "A" /\ coda = "Null" -> 97
      [] onset = "Null" /\ nucleus = "E" /\ coda = "Null" -> 101
      [] onset = "Null" /\ nucleus = "O" /\ coda = "Null" -> 111
      [] onset = "Null" /\ nucleus = "U" /\ coda = "Null" -> 48
      [] onset = "Null" /\ nucleus = "I" /\ coda = "Null" -> 105
      [] onset = "Null" /\ nucleus = "A" /\ coda = "N" -> 65
      [] onset = "Null" /\ nucleus = "E" /\ coda = "N" -> 38
      [] onset = "Null" /\ nucleus = "O" /\ coda = "N" -> 55
      [] onset = "Null" /\ nucleus = "U" /\ coda = "N" -> 85
      [] onset = "Null" /\ nucleus = "I" /\ coda = "N" -> 33
      [] onset = "J" /\ nucleus = "A" /\ coda = "Null" -> 89
      [] onset = "J" /\ nucleus = "E" /\ coda = "Null" -> 121
      [] onset = "J" /\ nucleus = "O" /\ coda = "Null" -> 74
      [] onset = "J" /\ nucleus = "U" /\ coda = "Null" -> 44
      [] onset = "J" /\ nucleus = "I" /\ coda = "Null" -> Unreachable
      [] onset = "J" /\ nucleus = "A" /\ coda = "N" -> 106
      [] onset = "J" /\ nucleus = "E" /\ coda = "N" -> 34
      [] onset = "J" /\ nucleus = "O" /\ coda = "N" -> 62
      [] onset = "J" /\ nucleus = "U" /\ coda = "N" -> 60
      [] onset = "J" /\ nucleus = "I" /\ coda = "N" -> Unreachable
      [] onset = "W" /\ nucleus = "A" /\ coda = "Null" -> 119
      [] onset = "W" /\ nucleus = "E" /\ coda = "Null" -> 86
      [] onset = "W" /\ nucleus = "O" /\ coda = "Null" -> Unreachable
      [] onset = "W" /\ nucleus = "U" /\ coda = "Null" -> Unreachable
      [] onset = "W" /\ nucleus = "I" /\ coda = "Null" -> 87
      [] onset = "W" /\ nucleus = "A" /\ coda = "N" -> 49
      [] onset = "W" /\ nucleus = "E" /\ coda = "N" -> 118
      [] onset = "W" /\ nucleus = "O" /\ coda = "N" -> Unreachable
      [] onset = "W" /\ nucleus = "U" /\ coda = "N" -> Unreachable
      [] onset = "W" /\ nucleus = "I" /\ coda = "N" -> 124
      [] onset = "K" /\ nucleus = "A" /\ coda = "Null" -> 75
      [] onset = "K" /\ nucleus = "E" /\ coda = "Null" -> 71
      [] onset = "K" /\ nucleus = "O" /\ coda = "Null" -> 72
      [] onset = "K" /\ nucleus = "U" /\ coda = "Null" -> 113
      [] onset = "K" /\ nucleus = "I" /\ coda = "Null" -> 107
      [] onset = "K" /\ nucleus = "A" /\ coda = "N" -> 125
      [] onset = "K" /\ nucleus = "E" /\ coda = "N" -> 103
      [] onset = "K" /\ nucleus = "O" /\ coda = "N" -> 104
      [] onset = "K" /\ nucleus = "U" /\ coda = "N" -> 123
      [] onset = "K" /\ nucleus = "I" /\ coda = "N" -> 81
      [] onset = "N" /\ nucleus = "A" /\ coda = "Null" -> 110
      [] onset = "N" /\ nucleus = "E" /\ coda = "Null" -> 94
      [] onset = "N" /\ nucleus = "O" /\ coda = "Null" -> 42
      [] onset = "N" /\ nucleus = "U" /\ coda = "Null" -> 47
      [] onset = "N" /\ nucleus = "I" /\ coda = "Null" -> 78
      [] onset = "N" /\ nucleus = "A" /\ coda = "N" -> 35
      [] onset = "N" /\ nucleus = "E" /\ coda = "N" -> 45
      [] onset = "N" /\ nucleus = "O" /\ coda = "N" -> 95
      [] onset = "N" /\ nucleus = "U" /\ coda = "N" -> 41
      [] onset = "N" /\ nucleus = "I" /\ coda = "N" -> 40
      [] onset = "T" /\ nucleus = "A" /\ coda = "Null" -> 84
      [] onset = "T" /\ nucleus = "E" /\ coda = "Null" -> 69
      [] onset = "T" /\ nucleus = "O" /\ coda = "Null" -> 116
      [] onset = "T" /\ nucleus = "U" /\ coda = "Null" -> 50
      [] onset = "T" /\ nucleus = "I" /\ coda = "Null" -> Unreachable
      [] onset = "T" /\ nucleus = "A" /\ coda = "N" -> 88
      [] onset = "T" /\ nucleus = "E" /\ coda = "N" -> 120
      [] onset = "T" /\ nucleus = "O" /\ coda = "N" -> 68
      [] onset = "T" /\ nucleus = "U" /\ coda = "N" -> 100
      [] onset = "T" /\ nucleus = "I" /\ coda = "N" -> Unreachable
      [] onset = "L" /\ nucleus = "A" /\ coda = "Null" -> 76
      [] onset = "L" /\ nucleus = "E" /\ coda = "Null" -> 114
      [] onset = "L" /\ nucleus = "O" /\ coda = "Null" -> 126
      [] onset = "L" /\ nucleus = "U" /\ coda = "Null" -> 53
      [] onset = "L" /\ nucleus = "I" /\ coda = "Null" -> 108
      [] onset = "L" /\ nucleus = "A" /\ coda = "N" -> 39
      [] onset = "L" /\ nucleus = "E" /\ coda = "N" -> 36
      [] onset = "L" /\ nucleus = "O" /\ coda = "N" -> 82
      [] onset = "L" /\ nucleus = "U" /\ coda = "N" -> 59
      [] onset = "L" /\ nucleus = "I" /\ coda = "N" -> 73
      [] onset = "M" /\ nucleus = "A" /\ coda = "Null" -> 77
      [] onset = "M" /\ nucleus = "E" /\ coda = "Null" -> 63
      [] onset = "M" /\ nucleus = "O" /\ coda = "Null" -> 79
      [] onset = "M" /\ nucleus = "U" /\ coda = "Null" -> 117
      [] onset = "M" /\ nucleus = "I" /\ coda = "Null" -> 109
      [] onset = "M" /\ nucleus = "A" /\ coda = "N" -> 96
      [] onset = "M" /\ nucleus = "E" /\ coda = "N" -> 57
      [] onset = "M" /\ nucleus = "O" /\ coda = "N" -> 64
      [] onset = "M" /\ nucleus = "U" /\ coda = "N" -> 51
      [] onset = "M" /\ nucleus = "I" /\ coda = "N" -> 56
      [] onset = "P" /\ nucleus = "A" /\ coda = "Null" -> 98
      [] onset = "P" /\ nucleus = "E" /\ coda = "Null" -> 66
      [] onset = "P" /\ nucleus = "O" /\ coda = "Null" -> 112
      [] onset = "P" /\ nucleus = "U" /\ coda = "Null" -> 102
      [] onset = "P" /\ nucleus = "I" /\ coda = "Null" -> 80
      [] onset = "P" /\ nucleus = "A" /\ coda = "N" -> 54
      [] onset = "P" /\ nucleus = "E" /\ coda = "N" -> 70
      [] onset = "P" /\ nucleus = "O" /\ coda = "N" -> 61
      [] onset = "P" /\ nucleus = "U" /\ coda = "N" -> 43
      [] onset = "P" /\ nucleus = "I" /\ coda = "N" -> 37
      [] onset = "S" /\ nucleus = "A" /\ coda = "Null" -> 99
      [] onset = "S" /\ nucleus = "E" /\ coda = "Null" -> 90
      [] onset = "S" /\ nucleus = "O" /\ coda = "Null" -> 83
      [] onset = "S" /\ nucleus = "U" /\ coda = "Null" -> 122
      [] onset = "S" /\ nucleus = "I" /\ coda = "Null" -> 115
      [] onset = "S" /\ nucleus = "A" /\ coda = "N" -> 93
      [] onset = "S" /\ nucleus = "E" /\ coda = "N" -> 91
      [] onset = "S" /\ nucleus = "O" /\ coda = "N" -> 92
      [] onset = "S" /\ nucleus = "U" /\ coda = "N" -> 52
      [] onset = "S" /\ nucleus = "I" /\ coda = "N" -> 67

\* Onset::latin_char (Option<char>)
Onset_latin_char(onset) ==
    CASE onset = "Null" -> <<>>
      [] onset = "P" -> <<112>>
      [] onset = "T" -> <<116>>
      [] onset = "K" -> <<107>>
      [] onset = "S" -> <<115>>
      [] onset = "M" -> <<109>>
      [] onset = "N" -> <<110>>
      [] onset = "L" -> <<108>>
      [] onset = "J" -> <<106>>
      [] onset = "W" -> <<119>>

\* Onset::cyrillic_char (Option<char>)
Onset_cyrillic_char(onset) ==
    CASE onset = "Null" -> <<>>
      [] onset = "P" -> <<1087>>
      [] onset = "T" -> <<1090>>
      [] onset = "K" -> <<1082>>
      [] onset = "S" -> <<1089>>
      [] onset = "M" -> <<1084>>
      [] onset = "N" -> <<1085>>
      [] onset = "L" -> <<1083>>
      [] onset = "J" -> <<Unreachable>>
      [] onset = "W" -> <<1074>>

\* Onset::greek_char (Option<char>)
Onset_greek_char(onset) ==
    CASE onset = "Null" -> <<>>
      [] onset = "P" -> <<960>>
      [] onset = "T" -> <<964>>
      [] onset = "K" -> <<954>>
      [] onset = "S" -> <<963>>
      [] onset = "M" -> <<956>>
      [] onset = "N" -> <<957>>
      [] onset = "L" -> <<955>>
      [] onset = "J" -> <<947>>
      [] onset = "W" -> <<946>>

\* Onset::hebrew_char (char)
Onset_hebrew_char(onset) ==
    CASE onset = "Null" -> 1488
      [] onset = "P" -> 1508
      [] onset = "T" -> 1496
      [] onset = "K" -> 1511
      [] onset = "S" -> 1505
      [] onset = "M" -> 1502
      [] onset = "N" -> 1504
      [] onset = "L" -> 1500
      [] onset = "J" -> 1497
      [] onset = "W" -> 1493

\* Onset::devanagari_char (Option<char>)
Onset_devanagari_char(onset) ==
    CASE onset = "Null" -> <<>>
      [] onset = "P" -> <<2346>>
      [] onset = "T" -> <<2340>>
      [] onset = "K" -> <<2325>>
      [] onset = "S" -> <<2360>>
      [] onset = "M" -> <<2350>>
      [] onset = "N" -> <<2344>>
      [] onset = "L" -> <<2354>>
      [] onset = "J" -> <<2351>>
      [] onset = "W" -> <<2357>>

\* Onset::arabic_char (char)
Onset_arabic_char(onset) ==
    CASE onset = "Null" -> 1575
      [] onset = "P" -> 1576
      [] onset = "T" -> 1578
      [] onset = "K" -> 1603
      [] onset = "S" -> 1587
      [] onset = "M" -> 1605
      [] onset = "N" -> 1606
      [] onset = "L" -> 1604
      [] onset = "J" -> 1610
      [] onset = "W" -> 1608

\* Onset::gujarati_char (Option<char>)
Onset_gujarati_char(onset) ==
    CASE onset = "Null" -> <<>>
      [] onset = "P" -> <<2730>>
      [] onset = "T" -> <<2724>>
      [] onset = "K" -> <<2709>>
      [] onset = "S" -> <<2744>>
      [] onset = "M" -> <<2734>>
      [] onset = "N" -> <<2728>>
      [] onset = "L" -> <<2738>>
      [] onset = "J" -> <<2735>>
      [] onset = "W" -> <<2741>>

\* Onset::kannada_char (Option<char>)
Onset_kannada_char(onset) ==
    CASE onset = "Null" -> <<>>
      [] onset = "P" -> <<3242>>
      [] onset = "T" -> <<3236>>
      [] onset = "K" -> <<3221>>
      [] onset = "S" -> <<3256>>
      [] onset = "M" -> <<3246>>
      [] onset = "N" -> <<3240>>
      [] onset = "L" -> <<3250>>
      [] onset = "J" -> <<3247>>
      [] onset = "W" -> <<3253>>

\* Onset::syllabics_char (char)
Onset_syllabics_char(onset, nucleus) ==
    CASE onset = "Null" /\ nucleus = "A" -> 5130
      [] onset = "Null" /\ nucleus = "E" -> 5121
      [] onset = "Null" /\ nucleus = "I" -> 5123
      [] onset = "Null" /\ nucleus = "O" -> 5125
      [] onset = "Null" /\ nucleus = "U" -> 5126
      [] onset = "P" /\ nucleus = "A" -> 5176
      [] onset = "P" /\ nucleus = "E" -> 5167
      [] onset = "P" /\ nucleus = "I" -> 5169
      [] onset = "P" /\ nucleus = "O" -> 5171
      [] onset = "P" /\ nucleus = "U" -> 5172
      [] onset = "T" /\ nucleus = "A" -> 5205
      [] onset = "T" /\ nucleus = "E" -> 5196
      [] onset = "T" /\ nucleus = "I" -> Unreachable
      [] onset = "T" /\ nucleus = "O" -> 5200
      [] onset = "T" /\ nucleus = "U" -> 5201
      [] onset = "K" /\ nucleus = "A" -> 5234
      [] onset = "K" /\ nucleus = "E" -> 5227
      [] onset = "K" /\ nucleus = "I" -> 5229
      [] onset = "K" /\ nucleus = "O" -> 5231
      [] onset = "K" /\ nucleus = "U" -> 5232
      [] onset = "S" /\ nucleus = "A" -> 5364
      [] onset = "S" /\ nucleus = "E" -> 5357
      [] onset = "S" /\ nucleus = "I" -> 5359
      [] onset = "S" /\ nucleus = "O" -> 5361
      [] onset = "S" /\ nucleus = "U" -> 5362
      [] onset = "M" /\ nucleus = "A" -> 5290
      [] onset = "M" /\ nucleus = "E" -> 5283
      [] onset = "M" /\ nucleus = "I" -> 5285
      [] onset = "M" /\ nucleus = "O" -> 5287
      [] onset = "M" /\ nucleus = "U" -> 5288
      [] onset = "N" /\ nucleus = "A" -> 5319
      [] onset = "N" /\ nucleus = "E" -> 5312
      [] onset = "N" /\ nucleus = "I" -> 5314
      [] onset = "N" /\ nucleus = "O" -> 5316
      [] onset = "N" /\ nucleus = "U" -> 5317
      [] onset = "L" /\ nucleus = "A" -> 5338
      [] onset = "L" /\ nucleus = "E" -> 5331
      [] onset = "L" /\ nucleus = "I" -> 5333
      [] onset = "L" /\ nucleus = "O" -> 5335
      [] onset = "L" /\ nucleus = "U" -> 5336
      [] onset = "J" /\ nucleus = "A" -> 5421
      [] onset = "J" /\ nucleus = "E" -> 5414
      [] onset = "J" /\ nucleus = "I" -> Unreachable
      [] onset = "J" /\ nucleus = "O" -> 5418
      [] onset = "J" /\ nucleus = "U" -> 5419
      [] onset = "W" /\ nucleus = "A" -> 5465
      [] onset = "W" /\ nucleus = "E" -> 5459
      [] onset = "W" /\ nucleus = "I" -> 5461
      [] onset = "W" /\ nucleus = "O" -> Unreachable
      [] onset = "W" /\ nucleus = "U" -> Unreachable

\* Onset::shavian_char (Option<char>)
Onset_shavian_char(onset) ==
    CASE onset = "Null" -> <<>>
      [] onset = "P" -> <<66640>>
      [] onset = "T" -> <<66641>>
      [] onset = "K" -> <<66642>>
      [] onset = "S" -> <<66645>>
      [] onset = "M" -> <<66661>>
      [] onset = "N" -> <<66671>>
      [] onset = "L" -> <<66660>>
      [] onset = "J" -> <<66648>>
      [] onset = "W" -> <<66658>>

\* Onset::hiragana_char (char)
Onset_hiragana_char(onset, nucleus) ==
    CASE onset = "Null" /\ nucleus = "A" -> 12354
      [] onset = "Null" /\ nucleus = "I" -> 12356
      [] onset = "Null" /\ nucleus = "U" -> 12358
      [] onset = "Null" /\ nucleus = "E" -> 12360
      [] onset = "Null" /\ nucleus = "O" -> 12362
      [] onset = "K" /\ nucleus = "A" -> 12363
      [] onset = "K" /\ nucleus = "I" -> 12365
      [] onset = "K" /\ nucleus = "U" -> 12367
      [] onset = "K" /\ nucleus = "E" -> 12369
      [] onset = "K" /\ nucleus = "O" -> 12371
      [] onset = "S" /\ nucleus = "A" -> 12373
      [] onset = "S" /\ nucleus = "I" -> 12375
      [] onset = "S" /\ nucleus = "U" -> 12377
      [] onset = "S" /\ nucleus = "E" -> 12379
      [] onset = "S" /\ nucleus = "O" -> 12381
      [] onset = "T" /\ nucleus = "A" -> 12383
      [] onset = "T" /\ nucleus = "I" -> Unreachable
      [] onset = "T" /\ nucleus = "U" -> 12388
      [] onset = "T" /\ nucleus = "E" -> 12390
      [] onset = "T" /\ nucleus = "O" -> 12392
      [] onset = "N" /\ nucleus = "A" -> 12394
      [] onset = "N" /\ nucleus = "I" -> 12395
      [] onset = "N" /\ nucleus = "U" -> 12396
      [] onset = "N" /\ nucleus = "E" -> 12397
      [] onset = "N" /\ nucleus = "O" -> 12398
      [] onset = "P" /\ nucleus = "A" -> 12399
      [] onset = "P" /\ nucleus = "I" -> 12402
      [] onset = "P" /\ nucleus = "U" -> 12405
      [] onset = "P" /\ nucleus = "E" -> 12408
      [] onset = "P" /\ nucleus = "O" -> 12411
      [] onset = "M" /\ nucleus = "A" -> 12414
      [] onset = "M" /\ nucleus = "I" -> 12415
      [] onset = "M" /\ nucleus = "U" -> 12416
      [] onset = "M" /\ nucleus = "E" -> 12417
      [] onset = "M" /\ nucleus = "O" -> 12418
      [] onset = "J" /\ nucleus = "A" -> 12420
      [] onset = "J" /\ nucleus = "I" -> Unreachable
      [] onset = "J" /\ nucleus = "U" -> 12422
      [] onset = "J" /\ nucleus = "E" -> 27743
      [] onset = "J" /\ nucleus = "O" -> 12424
      [] onset = "L" /\ nucleus = "A" -> 12425
      [] onset = "L" /\ nucleus = "I" -> 12426
      [] onset = "L" /\ nucleus = "U" -> 12427
      [] onset = "L" /\ nucleus = "E" -> 12428
      [] onset = "L" /\ nucleus = "O" -> 12429
      [] onset = "W" /\ nucleus = "A" -> 12431
      [] onset = "W" /\ nucleus = "I" -> 12432
      [] onset = "W" /\ nucleus = "U" -> Unreachable
      [] onset = "W" /\ nucleus = "E" -> 12433
      [] onset = "W" /\ nucleus = "O" -> Unreachable

\* Onset::katakana_char (char)
Onset_katakana_char(onset, nucleus) ==
    CASE onset = "Null" /\ nucleus = "A" -> 12450
      [] onset = "Null" /\ nucleus = "I" -> 12452
      [] onset = "Null" /\ nucleus = "U" -> 12454
      [] onset = "Null" /\ nucleus = "E" -> 12456
      [] onset = "Null" /\ nucleus = "O" -> 12458
      [] onset = "K" /\ nucleus = "A" -> 12459
      [] onset = "K" /\ nucleus = "I" -> 12461
      [] onset = "K" /\ nucleus = "U" -> 12463
      [] onset = "K" /\ nucleus = "E" -> 12465
      [] onset = "K" /\ nucleus = "O" -> 12467
      [] onset = "S" /\ nucleus = "A" -> 12469
      [] onset = "S" /\ nucleus = "I" -> 12471
      [] onset = "S" /\ nucleus = "U" -> 12473
      [] onset = "S" /\ nucleus = "E" -> 12475
      [] onset = "S" /\ nucleus = "O" -> 12477
      [] onset = "T" /\ nucleus = "A" -> 12479
      [] onset = "T" /\ nucleus = "I" -> Unreachable
      [] onset = "T" /\ nucleus = "U" -> 12484
      [] onset = "T" /\ nucleus = "E" -> 12486
      [] onset = "T" /\ nucleus = "O" -> 12488
      [] onset = "N" /\ nucleus = "A" -> 12490
      [] onset = "N" /\ nucleus = "I" -> 12491
      [] onset = "N" /\ nucleus = "U" -> 12492
      [] onset = "N" /\ nucleus = "E" -> 12493
      [] onset = "N" /\ nucleus = "O" -> 12494
      [] onset = "P" /\ nucleus = "A" -> 12495
      [] onset = "P" /\ nucleus = "I" -> 12498
      [] onset = "P" /\ nucleus = "U" -> 12501
      [] onset = "P" /\ nucleus = "E" -> 12504
      [] onset = "P" /\ nucleus = "O" -> 12507
      [] onset = "M" /\ nucleus = "A" -> 12510
      [] onset = "M" /\ nucleus = "I" -> 12511
      [] onset = "M" /\ nucleus = "U" -> 12512
      [] onset = "M" /\ nucleus = "E" -> 12513
      [] onset = "M" /\ nucleus = "O" -> 12514
      [] onset = "J" /\ nucleus = "A" -> 12516
      [] onset = "J" /\ nucleus = "I" -> Unreachable
      [] onset = "J" /\ nucleus = "U" -> 12518
      [] onset = "J" /\ nucleus = "E" -> 12456
      [] onset = "J" /\ nucleus = "O" -> 12520
      [] onset = "L" /\ nucleus = "A" -> 12521
      [] onset = "L" /\ nucleus = "I" -> 12522
      [] onset = "L" /\ nucleus = "U" -> 12523
      [] onset = "L" /\ nucleus = "E" -> 12524
      [] onset = "L" /\ nucleus = "O" -> 12525
      [] onset = "W" /\ nucleus = "A" -> 12527
      [] onset = "W" /\ nucleus = "I" -> 12528
      [] onset = "W" /\ nucleus = "U" -> Unreachable
      [] onset = "W" /\ nucleus = "E" -> 12529
      [] onset = "W" /\ nucleus = "O" -> Unreachable

\* Onset::futhark_char (Option<char>)
Onset_futhark_char(onset) ==
    CASE onset = "Null" -> <<>>
      [] onset = "P" -> <<5832>>
      [] onset = "T" -> <<5839>>
      [] onset = "K" -> <<5810>>
      [] onset = "S" -> <<5834>>
      [] onset = "M" -> <<5847>>
      [] onset = "N" -> <<5822>>
      [] onset = "L" -> <<5850>>
      [] onset = "J" -> <<5827>>
      [] onset = "W" -> <<5817>>

\* Onset::gothic_char (Option<char>)
Onset_gothic_char(onset) ==
    CASE onset = "Null" -> <<>>
      [] onset = "P" -> <<66368>>
      [] onset = "T" -> <<66372>>
      [] onset = "K" -> <<66362>>
      [] onset = "S" -> <<66371>>
      [] onset = "M" -> <<66364>>
      [] onset = "N" -> <<66365>>
      [] onset = "L" -> <<66363>>
      [] onset = "J" -> <<66366>>
      [] onset = "W" -> <<66373>>

\* Onset::ogham_char (Option<char>)
Onset_ogham_char(onset) ==
    CASE onset = "Null" -> <<>>
      [] onset = "P" -> <<5761>>
      [] onset = "T" -> <<5768>>
      [] onset = "K" -> <<5769>>
      [] onset = "S" -> <<5764>>
      [] onset = "M" -> <<5771>>
      [] onset = "N" -> <<5765>>
      [] onset = "L" -> <<5762>>
      [] onset = "J" -> <<5766>>
      [] onset = "W" -> <<5763>>

\* Onset::mkhedruli_char (Option<char>)
Onset_mkhedruli_char(onset) ==
    CASE onset = "Null" -> <<>>
      [] onset = "P" -> <<4324>>
      [] onset = "T" -> <<4311>>
      [] onset = "K" -> <<4325>>
      [] onset = "S" -> <<4321>>
      [] onset = "M" -> <<4315>>
      [] onset = "N" -> <<4316>>
      [] onset = "L" -> <<4314>>
      [] onset = "J" -> <<4338>>
      [] onset = "W" -> <<4339>>

\* Nucleus::latin_char (char)
Nucleus_latin_char(nucleus) ==
    CASE nucleus = "A" -> 97
      [] nucleus = "E" -> 101
      [] nucleus = "I" -> 105
      [] nucleus = "O" -> 111
      [] nucleus = "U" -> 117

\* Nucleus::cyrillic_char (char)
Nucleus_cyrillic_char(nucleus) ==
    CASE nucleus = "A" -> 97
      [] nucleus = "E" -> 1101
      [] nucleus = "I" -> 1080
      [] nucleus = "O" -> 1086
      [] nucleus = "U" -> 1091

\* The iotated table giving the plain nucleus glyphs.
Nucleus_iotated_cyrillic_char_Plain(nucleus) == Nucleus_cyrillic_char(nucleus)

\* Nucleus::iotated_cyrillic_char (char)
Nucleus_iotated_cyrillic_char(nucleus) ==
    CASE nucleus = "A" -> 1103
      [] nucleus = "E" -> 1077
      [] nucleus = "I" -> Unreachable
      [] nucleus = "O" -> 1105
      [] nucleus = "U" -> 1102

\* Nucleus::greek_char (char)
Nucleus_greek_char(nucleus) ==
    CASE nucleus = "A" -> 945
      [] nucleus = "E" -> 949
      [] nucleus = "I" -> 953
      [] nucleus = "O" -> 959
      [] nucleus = "U" -> 965

\* Nucleus::hebrew_char (char)
Nucleus_hebrew_char(nucleus) ==
    CASE nucleus = "A" -> 1464
      [] nucleus = "E" -> 1462
      [] nucleus = "I" -> 1460
      [] nucleus = "O" -> 1465
      [] nucleus = "U" -> 1467

\* Nucleus::devanagari_char (char)
Nucleus_devanagari_char(nucleus) ==
    CASE nucleus = "A" -> 2309
      [] nucleus = "E" -> 2319
      [] nucleus = "I" -> 2311
      [] nucleus = "O" -> 2323
      [] nucleus = "U" -> 2313

\* The Devanagari modifier table with the sign aa for nucleus A.
Nucleus_devanagari_modifier_char_WithA(nucleus) ==
    CASE nucleus = "A" -> <<2366>>
      [] nucleus = "E" -> <<2375>>
      [] nucleus = "I" -> <<2367>>
      [] nucleus = "O" -> <<2379>>
      [] nucleus = "U" -> <<2369>>

\* Nucleus::devanagari_modifier_char (Option<char>)
Nucleus_devanagari_modifier_char(nucleus) ==
    CASE nucleus = "A" -> <<>>
      [] nucleus = "E" -> <<2375>>
      [] nucleus = "I" -> <<2367>>
      [] nucleus = "O" -> <<2379>>
      [] nucleus = "U" -> <<2369>>

\* Nucleus::arabic_chars (chars)
Nucleus_arabic_chars(nucleus, coda) ==
    CASE nucleus = "A" /\ coda = "Null" -> <<1614>>
      [] nucleus = "A" /\ coda = "N" -> <<1611>>
      [] nucleus = "E" /\ coda = "Null" -> <<1616>>
      [] nucleus = "E" /\ coda = "N" -> <<1613>>
      [] nucleus = "I" /\ coda = "Null" -> <<1616, 1610>>
      [] nucleus = "I" /\ coda = "N" -> <<1613, 1610>>
      [] nucleus = "O" /\ coda = "Null" -> <<1615>>
      [] nucleus = "O" /\ coda = "N" -> <<1612>>
      [] nucleus = "U" /\ coda = "Null" -> <<1616, 1608>>
      [] nucleus = "U" /\ coda = "N" -> <<1612, 1608>>

\* Nucleus::gujarati_char (char)
Nucleus_gujarati_char(nucleus) ==
    CASE nucleus = "A" -> 2694
      [] nucleus = "E" -> 2703
      [] nucleus = "I" -> 2696
      [] nucleus = "O" -> 2707
      [] nucleus = "U" -> 2698

\* Nucleus::gujarati_modifier_char (char)
Nucleus_gujarati_modifier_char(nucleus) ==
    CASE nucleus = "A" -> 2750
      [] nucleus = "E" -> 2759
      [] nucleus = "I" -> 2752
      [] nucleus = "O" -> 2763
      [] nucleus = "U" -> 2754

\* Nucleus::kannada_char (char)
Nucleus_kannada_char(nucleus) ==
    CASE nucleus = "A" -> 3205
      [] nucleus = "E" -> 3214
      [] nucleus = "I" -> 3207
      [] nucleus = "O" -> 3218
      [] nucleus = "U" -> 3209

\* Nucleus::kannada_modifier_char (Option<char>)
Nucleus_kannada_modifier_char(nucleus) ==
    CASE nucleus = "A" -> <<>>
      [] nucleus = "E" -> <<3270>>
      [] nucleus = "I" -> <<3263>>
      [] nucleus = "O" -> <<3274>>
      [] nucleus = "U" -> <<3265>>

\* Nucleus::shavian_char (char)
Nucleus_shavian_char(nucleus) ==
    CASE nucleus = "A" -> 66664
      [] nucleus = "E" -> 66663
      [] nucleus = "I" -> 66662
      [] nucleus = "O" -> 66666
      [] nucleus = "U" -> 66665

\* Nucleus::futhark_char (char)
Nucleus_futhark_char(nucleus) ==
    CASE nucleus = "A" -> 5800
      [] nucleus = "E" -> 5846
      [] nucleus = "I" -> 5825
      [] nucleus = "O" -> 5855
      [] nucleus = "U" -> 5794

\* Nucleus::gothic_char (char)
Nucleus_gothic_char(nucleus) ==
    CASE nucleus = "A" -> 66352
      [] nucleus = "E" -> 66356
      [] nucleus = "I" -> 66361
      [] nucleus = "O" -> 66377
      [] nucleus = "U" -> 66367

\* Nucleus::ogham_char (char)
Nucleus_ogham_char(nucleus) ==
    CASE nucleus = "A" -> 5776
      [] nucleus = "E" -> 5779
      [] nucleus = "I" -> 5780
      [] nucleus = "O" -> 5777
      [] nucleus = "U" -> 5778

\* Nucleus::mkhedruli_char (char)
Nucleus_mkhedruli_char(nucleus) ==
    CASE nucleus = "A" -> 4304
      [] nucleus = "E" -> 4308
      [] nucleus = "I" -> 4312
      [] nucleus = "O" -> 4317
      [] nucleus = "U" -> 4323

\* Coda::latin_char (Option<char>)
Coda_latin_char(coda) ==
    CASE coda = "Null" -> <<>>
      [] coda = "N" -> <<110>>

\* Coda::cyrillic_char (Option<char>)
Coda_cyrillic_char(coda) ==
    CASE coda = "Null" -> <<>>
      [] coda = "N" -> <<1085>>

\* Coda::greek_char (Option<char>)
Coda_greek_char(coda) ==
    CASE coda = "Null" -> <<>>
      [] coda = "N" -> <<957>>

\* Coda::devanagari_char (Option<char>)
Coda_devanagari_char(coda) ==
    CASE coda = "Null" -> <<>>
      [] coda = "N" -> <<2306>>

\* Coda::syllabics_char with the arm of coda N left `unreachable!()`.
Coda_syllabics_char_NoN(coda) ==
    CASE coda = "Null" -> <<>>
      [] coda = "N" -> <<Unreachable>>

\* Coda::syllabics_char (Option<char>)
Coda_syllabics_char(coda) ==
    CASE coda = "Null" -> <<>>
      [] coda = "N" -> <<5328>>

\* Coda::shavian_char (Option<char>)
Coda_shavian_char(coda) ==
    CASE coda = "Null" -> <<>>
      [] coda = "N" -> <<66671>>

\* Coda::hiragana_char (Option<char>)
Coda_hiragana_char(coda) ==
    CASE coda = "Null" -> <<>>
      [] coda = "N" -> <<12435>>

\* Coda::katakana_char (Option<char>)
Coda_katakana_char(coda) ==
    CASE coda = "Null" -> <<>>
      [] coda = "N" -> <<12531>>

\* Coda::futhark_char (Option<char>)
Coda_futhark_char(coda) ==
    CASE coda = "Null" -> <<>>
      [] coda = "N" -> <<5822>>

\* Coda::gothic_char (Option<char>)
Coda_gothic_char(coda) ==
    CASE coda = "Null" -> <<>>
      [] coda = "N" -> <<66365>>

\* Coda::ogham_char (Option<char>)
Coda_ogham_char(coda) ==
    CASE coda = "Null" -> <<>>
      [] coda = "N" -> <<5765>>

\* Coda::mkhedruli_char (Option<char>)
Coda_mkhedruli_char(coda) ==
    CASE coda = "Null" -> <<>>
      [] coda = "N" -> <<4316>>
\* The pattern on `prev` matching the onset field in place of the coda field.
PrevCodaN_Onset(prev) ==
    IF IsNone(prev) THEN FALSE ELSE prev[1].onset = "N"

\* `matches!(prev, Some(Syllable { coda: Coda::N, .. }))`
PrevCodaN(prev) == IF IsNone(prev) THEN FALSE ELSE prev[1].coda = "N"

\* The test of `prev` without its coda.
PrevRoundedOpen_AnyCoda(prev) ==
    IF IsNone(prev) THEN FALSE
    ELSE prev[1].nucleus \in {"O", "U"}

\* `matches!(prev, Some(Syllable { nucleus: O | U, coda: Coda::Null, .. }))`
PrevRoundedOpen(prev) ==
    IF IsNone(prev) THEN FALSE
    ELSE prev[1].nucleus \in {"O", "U"} /\ prev[1].coda = "Null"

\* Onset::orkhon_char: <<Option<char>, has_backness>>
Onset_orkhon_char(onset, prev, is_back) ==
    CASE onset = "Null" -> <<None, FALSE>>
      [] onset = "P" /\ is_back -> <<Some(68617), TRUE>>
      [] onset = "P" /\ ~is_back -> <<Some(68619), TRUE>>
      [] onset = "T" /\ PrevCodaN(prev) -> <<Some(68646), FALSE>>
      [] onset = "T" /\ ~PrevCodaN(prev) /\ is_back -> <<Some(68675), TRUE>>
      [] onset = "T" /\ ~PrevCodaN(prev) /\ ~is_back -> <<Some(68677), TRUE>>
      [] onset = "K" /\ is_back -> <<Some(68660), TRUE>>
      [] onset = "K" /\ ~is_back -> <<Some(68634), TRUE>>
      [] onset = "S" /\ is_back -> <<Some(68669), TRUE>>
      [] onset = "S" /\ ~is_back -> <<Some(68670), TRUE>>
      [] onset = "M" -> <<Some(68642), FALSE>>
      [] onset = "N" /\ is_back -> <<Some(68643), TRUE>>
      [] onset = "N" /\ ~is_back -> <<Some(68644), TRUE>>
      [] onset = "L" /\ is_back -> <<Some(68638), TRUE>>
      [] onset = "L" /\ ~is_back -> <<Some(68640), TRUE>>
      [] onset = "J" /\ PrevCodaN(prev) -> <<Some(68650), FALSE>>
      [] onset = "J" /\ ~PrevCodaN(prev) /\ is_back -> <<Some(68630), TRUE>>
      [] onset = "J" /\ ~PrevCodaN(prev) /\ ~is_back -> <<Some(68632), TRUE>>
      [] onset = "W" /\ PrevRoundedOpen(prev) -> <<None, FALSE>>
      [] onset = "W" /\ ~PrevRoundedOpen(prev) -> <<Some(68614), FALSE>>

\* Nucleus::orkhon_char without the test of has_backness.
Nucleus_orkhon_char_Always(nucleus, has_backness) ==
    CASE nucleus = "A" -> Some(68608)
      [] nucleus = "E" -> Some(68613)
      [] nucleus = "I" -> Some(68611)
      [] nucleus \in {"O", "U"} -> Some(68614)

\* Nucleus::orkhon_char
Nucleus_orkhon_char(nucleus, has_backness) ==
    CASE nucleus = "A" /\ has_backness -> None
      [] nucleus = "A" /\ ~has_backness -> Some(68608)
      [] nucleus = "E" -> Some(68613)
      [] nucleus = "I" /\ has_backness -> None
      [] nucleus = "I" /\ ~has_backness -> Some(68611)
      [] nucleus \in {"O", "U"} -> Some(68614)

\* Coda::hebrew_char with the two letterforms swapped.
Coda_hebrew_char_Swapped(coda, last) ==
    CASE coda = "Null" -> None
      [] coda = "N" -> IF last THEN Some(1504) ELSE Some(1503)

\* Coda::hebrew_char
Coda_hebrew_char(coda, last) ==
    CASE coda = "Null" -> None
      [] coda = "N" -> IF last THEN Some(1503) ELSE Some(1504)

\* Coda::gujarati_char
Coda_gujarati_char(coda, last) ==
    CASE coda = "Null" -> <<>>
      [] coda = "N" /\ last -> <<2728>>
      [] coda = "N" /\ ~last -> <<2728, 2765>>

\* Coda::kannada_char with the two arms of coda N exchanged.
Coda_kannada_char_Swapped(coda, last) ==
    CASE coda = "Null" -> <<>>
      [] coda = "N" /\ last -> <<3202>>
      [] coda = "N" /\ ~last -> <<3240, 3277>>

\* Coda::kannada_char
Coda_kannada_char(coda, last) ==
    CASE coda = "Null" -> <<>>
      [] coda = "N" /\ last -> <<3240, 3277>>
      [] coda = "N" /\ ~last -> <<3202>>

\* Coda::orkhon_char leaving the coda out before onset J only.
Coda_orkhon_char_OnlyJ(coda, next) ==
    CASE coda = "Null" -> None
      [] coda = "N" ->
            IF IsNone(next) THEN Some(68644)
            ELSE IF next[1].onset \in {"J"} THEN None
            ELSE IF Nucleus_is_back(next[1].nucleus) THEN Some(68643)
            ELSE Some(68644)

\* Coda::orkhon_char
Coda_orkhon_char(coda, next) ==
    CASE coda = "Null" -> None
      [] coda = "N" ->
            IF IsNone(next) THEN Some(68644)
            ELSE IF next[1].onset \in {"J", "T"} THEN None
            ELSE IF Nucleus_is_back(next[1].nucleus) THEN Some(68643)
            ELSE Some(68644)

\* --------------------------------------------- src/syllable.rs: renderer

\* The variants of Script that Syllable::write matches on.
Scripts ==
    {"LatinTitleCase", "Latin", "Cyrillic", "Greek", "Hebrew", "Devanagari",
     "Hangul", "Arabic", "Ascii", "Gujarati", "Kannada", "Syllabics", "Shavian",
     "Hiragana", "Katakana", "Futhark", "Gothic", "Ogham", "Georgian", "Orkhon"}

\* char::to_ascii_uppercase on a code point
CharToAsciiUppercase(c) == IF c \in 97..122 THEN c - 32 ELSE c

\* The char inserted at the front of the buffer (String::insert(0, c)).
Push_Front(buf, c) == <<c>> \o buf

\* String::push
Push(buf, c) == Append(buf, c)

\* String::extend, of an Option<char> or of a chars() iterator
Extend(buf, cs) == buf \o cs

\* Syllable::write: the buffer after the call.
Syllable_write(self, buf, script, prev, next) ==
    CASE script = "LatinTitleCase" /\ IsNone(prev) ->
            Extend(
                IF Onset_latin_char(self.onset) # None
                THEN Push(Push(buf, CharToAsciiUppercase(Onset_latin_char(self.onset)[1])),
                          Nucleus_latin_char(self.nucleus))
                ELSE Push(buf, CharToAsciiUppercase(Nucleus_latin_char(self.nucleus))),
                Coda_latin_char(self.coda))
      [] script = "Latin" \/ (script = "LatinTitleCase" /\ ~IsNone(prev)) ->
            Extend(Push(Extend(buf, Onset_latin_char(self.onset)),
                        Nucleus_latin_char(self.nucleus)),
                   Coda_latin_char(self.coda))
      [] script = "Cyrillic" ->
            Extend(
                IF self.onset = "J"
                THEN Push(buf, Nucleus_iotated_cyrillic_char(self.nucleus))
                ELSE Push(Extend(buf, Onset_cyrillic_char(self.onset)),
                          Nucleus_cyrillic_char(self.nucleus)),
                Coda_cyrillic_char(self.coda))
      [] script = "Greek" ->
            Extend(Push(Extend(buf, Onset_greek_char(self.onset)),
                        Nucleus_greek_char(self.nucleus)),
                   Coda_greek_char(self.coda))
      [] script = "Hebrew" ->
            Extend(Push(Push(buf, Onset_hebrew_char(self.onset)),
                        Nucleus_hebrew_char(self.nucleus)),
                   Coda_hebrew_char(self.coda, IsNone(next)))
      [] script = "Devanagari" ->
            Extend(
                IF Onset_devanagari_char(self.onset) # None
                THEN Extend(Push(buf, Onset_devanagari_char(self.onset)[1]),
                            Nucleus_devanagari_modifier_char(self.nucleus))
                ELSE Push(buf, Nucleus_devanagari_char(self.nucleus)),
                Coda_devanagari_char(self.coda))
      [] script = "Hangul" ->
            Push(buf, Syllable_hangul_char(self.onset, self.nucleus, self.coda))
      [] script = "Arabic" ->
            Extend(Push(buf, Onset_arabic_char(self.onset)),
                   Nucleus_arabic_chars(self.nucleus, self.coda))
      [] script = "Ascii" ->
            Push(buf, Syllable_ascii_char(self.onset, self.nucleus, self.coda))
      [] script = "Gujarati" ->
            Extend(
                IF Onset_gujarati_char(self.onset) # None
                THEN Push(Push(buf, Onset_gujarati_char(self.onset)[1]),
                          Nucleus_gujarati_modifier_char(self.nucleus))
                ELSE Push(buf, Nucleus_gujarati_char(self.nucleus)),
                Coda_gujarati_char(self.coda, IsNone(next)))
      [] script = "Kannada" ->
            Extend(
                IF Onset_kannada_char(self.onset) # None
                THEN Extend(Push(buf, Onset_kannada_char(self.onset)[1]),
                            Nucleus_kannada_modifier_char(self.nucleus))
                ELSE Push(buf, Nucleus_kannada_char(self.nucleus)),
                Coda_kannada_char(self.coda, IsNone(next)))
      [] script = "Syllabics" ->
            Extend(Push(buf, Onset_syllabics_char(self.onset, self.nucleus)),
                   Coda_syllabics_char(self.coda))
      [] script = "Shavian" ->
            Extend(Push(Extend(buf, Onset_shavian_char(self.onset)),
                        Nucleus_shavian_char(self.nucleus)),
                   Coda_shavian_char(self.coda))
      [] script = "Hiragana" ->
            Extend(Push(buf, Onset_hiragana_char(self.onset, self.nucleus)),
                   Coda_hiragana_char(self.coda))
      [] script = "Katakana" ->
            Extend(Push(buf, Onset_katakana_char(self.onset, self.nucleus)),
                   Coda_katakana_char(self.coda))
      [] script = "Futhark" ->
            Extend(Push(Extend(buf, Onset_futhark_char(self.onset)),
                        Nucleus_futhark_char(self.nucleus)),
                   Coda_futhark_char(self.coda))
      [] script = "Gothic" ->
            Extend(Push(Extend(buf, Onset_gothic_char(self.onset)),
                        Nucleus_gothic_char(self.nucleus)),
                   Coda_gothic_char(self.coda))
      [] script = "Ogham" ->
            Extend(Push(Extend(buf, Onset_ogham_char(self.onset)),
                        Nucleus_ogham_char(self.nucleus)),
                   Coda_ogham_char(self.coda))
      [] script = "Georgian" ->
            Extend(Push(Extend(buf, Onset_mkhedruli_char(self.onset)),
                        Nucleus_mkhedruli_char(self.nucleus)),
                   Coda_mkhedruli_char(self.coda))
      [] script = "Orkhon" ->
            LET onset == Onset_orkhon_char(self.onset, prev,
                                           Nucleus_is_back(self.nucleus))
            IN Extend(Extend(Extend(buf, onset[1]),
                             Nucleus_orkhon_char(self.nucleus, onset[2])),
                      Coda_orkhon_char(self.coda, next))

\* ------------------------------------------------------------------- state

VARIABLES
    \* src/lib.rs: NameGenerator and a running generate call
    min_length,      \* NameGenerator.min_length
    max_length,      \* NameGenerator.max_length (Option<u32>)
    syllable_count,  \* NameGenerator.syllable_count
    title_case,      \* generate's title_case argument
    pc,              \* position of the running generate call
    buf,             \* the String of the running name() call / the returned name
    syllables,       \* name(): the resolved syllable count
    remaining,       \* name(): iterations left of `0..(syllables - 1)`
    tc,              \* title_case argument of the running initial/syllable/nucleus
    draws,           \* draws the running name() call took from rng, in order
    \* src/syllable.rs: a name built with Syllable::new
    syls,            \* the syllables built so far
    count,           \* the number of syllables to build
    spc,             \* position of the running Syllable::new call
    onset,           \* Syllable::new's local `onset`
    nucleus,         \* Syllable::new's local `nucleus`
    sdraws,          \* draws the Syllable::new calls took from rng, in order
    \* src/syllable.rs: a Syllable::write call
    script,          \* the `script` argument
    wself,           \* `self`
    wprev,           \* the `prev` argument (Option<&Syllable>)
    wnext,           \* the `next` argument (Option<&Syllable>)
    out,             \* the `buf` argument
    wpc,             \* position of the call
    \* src/syllable.rs: a second Syllable::write call with the same arguments
    \* but another buffer
    out2,            \* the `buf` argument of the second call
    wpc2             \* position of the second call

generator == <<min_length, max_length, syllable_count>>

gvars == <<min_length, max_length, syllable_count, title_case, pc, buf,
           syllables, remaining, tc, draws>>

svars == <<syls, count, spc, onset, nucleus, sdraws>>

wvars == <<script, wself, wprev, wnext, out, wpc, out2, wpc2>>

vars == <<gvars, svars, wvars>>

\* The syllables Syllable::new can return.
Syllables ==
    {SyllableOf(o, n, Coda_random(b)) :
        <<o, n, b>> \in {t \in (({"Null"} \cup Onset_random) \X Nuclei \X BOOLEAN) :
                            t[2] \in Nucleus_random(t[1])}}

\* The caller's obligation on NameGenerator::new's arguments.
ValidBounds(min, max) ==
    min # 0 /\ (IF IsNone(max) THEN TRUE ELSE ~U32Lt(max[1], min))

NoGenerate ==
    /\ min_length = 1
    /\ max_length = None
    /\ syllable_count = NameGeneratorNew(1, None)
    /\ title_case = FALSE
    /\ pc = "idle"
    /\ buf = <<>>
    /\ syllables = 0
    /\ remaining = 0
    /\ tc = FALSE
    /\ draws = <<>>

NoSyllable ==
    /\ syls = <<>>
    /\ count = 0
    /\ spc = "idle"
    /\ onset = "Null"
    /\ nucleus = "A"
    /\ sdraws = <<>>

NoWrite ==
    /\ script = "Latin"
    /\ wself = SyllableOf("Null", "A", "Null")
    /\ wprev = None
    /\ wnext = None
    /\ out = <<>>
    /\ wpc = "idle"
    /\ out2 = <<>>
    /\ wpc2 = "idle"

\* A generator constructed by NameGenerator::new(min, max); generate is called.
GenerateCalled(min, max) ==
    /\ min_length = min
    /\ max_length = max
    /\ syllable_count = NameGeneratorNew(min, max)
    /\ title_case \in BOOLEAN
    /\ pc = "generate"
    /\ buf = <<>>
    /\ syllables = 0
    /\ remaining = 0
    /\ tc = FALSE
    /\ draws = <<>>

InitGenerate ==
    /\ \E min \in 1..MaxLen :
         \E max \in {None} \cup {Some(m) : m \in 1..MaxLen} :
            ValidBounds(min, max) /\ GenerateCalled(min, max)
    /\ NoSyllable
    /\ NoWrite

\* A name of `count` syllables is about to be built, each syllable by
\* Syllable::new with a mutable reference to the one before it.
InitName ==
    /\ NoGenerate
    /\ syls = <<>>
    /\ count \in 1..MaxSyl
    /\ spc = "new"
    /\ onset = "Null"
    /\ nucleus = "A"
    /\ sdraws = <<>>
    /\ NoWrite

Init == InitGenerate \/ InitName

\* ------------------------------------------------- src/lib.rs: generate

\* name(): `Fixed(syllables) => syllables`, then String::new().
name_fixed ==
    /\ pc = "generate"
    /\ syllable_count.kind = "Fixed"
    /\ syllables' = syllable_count.min
    /\ remaining' = U32Sub(syllable_count.min, 1)
    /\ buf' = <<>>
    /\ draws' = <<>>
    /\ pc' = "initial"
    /\ UNCHANGED <<generator, title_case, tc, svars, wvars>>

\* name() going on with the String of the attempt before.
name_poisson_x_KeepsBuf(x) ==
    /\ pc = "generate"
    /\ syllable_count.kind = "Poisson"
    /\ syllables' = syllable_count.min + x
    /\ remaining' = U32Sub(syllable_count.min + x, 1)
    /\ draws' = <<[kind |-> "count", value |-> x]>>
    /\ buf' = buf
    /\ pc' = "initial"
    /\ UNCHANGED <<generator, title_case, tc, svars, wvars>>

\* name(): `Poisson(min, p) => min + p.sample(rng) as u32` when the sample is
\* x, then String::new().
name_poisson_x(x) ==
    /\ pc = "generate"
    /\ syllable_count.kind = "Poisson"
    /\ syllables' = syllable_count.min + x
    /\ remaining' = U32Sub(syllable_count.min + x, 1)
    /\ draws' = <<[kind |-> "count", value |-> x]>>
    /\ buf' = <<>>
    /\ pc' = "initial"
    /\ UNCHANGED <<generator, title_case, tc, svars, wvars>>

name_poisson == \E x \in 0..MaxExtra : name_poisson_x(x)

\* initial() with its condition inverted.
initial_b_Inverted(b) ==
    /\ pc = "initial"
    /\ pc' = IF b THEN "syllable" ELSE "nucleus"
    /\ draws' = Append(draws, [kind |-> "initial", value |-> b])
    /\ tc' = title_case
    /\ UNCHANGED <<generator, title_case, buf, syllables, remaining, svars, wvars>>

\* initial(): rng.random_bool(0.25) = b selects nucleus() or syllable().
initial_b(b) ==
    /\ pc = "initial"
    /\ pc' = IF b THEN "nucleus" ELSE "syllable"
    /\ draws' = Append(draws, [kind |-> "initial", value |-> b])
    /\ tc' = title_case
    /\ UNCHANGED <<generator, title_case, buf, syllables, remaining, svars, wvars>>

initial == \E b \in BOOLEAN : initial_b(b)

\* syllable(): the onset draw and push, up to the call nucleus(buf, rng, false).
syllable ==
    /\ pc = "syllable"
    /\ \E v \in OnsetChoices(Last(buf)) :
         /\ buf' = PushCased(buf, v, tc)
         /\ draws' = Append(draws, [kind |-> "onset", value |-> v])
    /\ tc' = FALSE
    /\ pc' = "nucleus"
    /\ UNCHANGED <<generator, title_case, syllables, remaining, svars, wvars>>

\* nucleus(): the nucleus draw and push.
nucleus_draw ==
    /\ pc = "nucleus"
    /\ \E v \in NucleusChoices(Last(buf)) :
         /\ buf' = PushCased(buf, v, tc)
         /\ draws' = Append(draws, [kind |-> "nucleus", value |-> v])
    /\ pc' = "coda"
    /\ UNCHANGED <<generator, title_case, syllables, remaining, tc, svars, wvars>>

\* nucleus(): rng.random_bool(0.06) = b pushes 'n'; the callee returns to
\* name(), whose loop calls syllable(buf, rng, false) or ends.
nucleus_coda_b(b) ==
    /\ pc = "coda"
    /\ buf' = IF b THEN Append(buf, "n") ELSE buf
    /\ draws' = Append(draws, [kind |-> "coda", value |-> b])
    /\ IF remaining > 0
       THEN /\ remaining' = remaining - 1
            /\ pc' = "syllable"
       ELSE /\ remaining' = remaining
            /\ pc' = "check"
    /\ tc' = FALSE
    /\ UNCHANGED <<generator, title_case, syllables, svars, wvars>>

nucleus_coda == \E b \in BOOLEAN : nucleus_coda_b(b)

\* generate(): the candidate is inside the bounds and is returned.
generate_return ==
    /\ pc = "check"
    /\ Accepts(Len(buf), min_length, max_length)
    /\ pc' = "done"
    /\ UNCHANGED <<generator, title_case, buf, syllables, remaining, tc, draws,
                   svars, wvars>>

\* generate(): the candidate is outside the bounds; the loop goes round.
generate_retry ==
    /\ pc = "check"
    /\ ~Accepts(Len(buf), min_length, max_length)
    /\ pc' = "generate"
    /\ UNCHANGED <<generator, title_case, buf, syllables, remaining, tc, draws,
                   svars, wvars>>

NextGenerate ==
    \/ name_fixed
    \/ name_poisson
    \/ initial
    \/ syllable
    \/ nucleus_draw
    \/ nucleus_coda
    \/ generate_return
    \/ generate_retry

\* --------------------------------------------- src/syllable.rs: Syllable::new

\* `prev`: the last syllable built, if any.
PrevOf(s) == IF Len(s) = 0 THEN None ELSE Some(s[Len(s)])

\* The write through `prev` made for an onset N only.
SuppressCoda_OnlyN(s, o) ==
    IF o = "N"
    THEN [s EXCEPT ![Len(s)] = [@ EXCEPT !.coda = "Null"]]
    ELSE s

\* The write through `prev` made for every onset.
SuppressCoda_Always(s, o) ==
    [s EXCEPT ![Len(s)] = [@ EXCEPT !.coda = "Null"]]

\* The previous syllable after `prev.coda = Coda::Null` when the onset drawn is
\* M or N.
SuppressCoda(s, o) ==
    IF o \in {"M", "N"}
    THEN [s EXCEPT ![Len(s)] = [@ EXCEPT !.coda = "Null"]]
    ELSE s

\* Syllable::new, `if let Some(prev) = prev`: Onset::random, then the write
\* through `prev`.
new_onset_prev ==
    /\ spc = "new"
    /\ ~IsNone(PrevOf(syls))
    /\ \E o \in Onset_random :
         /\ onset' = o
         /\ syls' = SuppressCoda(syls, o)
         /\ sdraws' = Append(sdraws, [kind |-> "onset", value |-> o])
    /\ spc' = "nucleus"
    /\ UNCHANGED <<count, nucleus, gvars, wvars>>

\* Syllable::new, no `prev`: rng.random_bool(0.25) selects Onset::Null.
new_first ==
    /\ spc = "new"
    /\ IsNone(PrevOf(syls))
    /\ \E b \in BOOLEAN :
         /\ spc' = IF b THEN "nucleus" ELSE "onset"
         /\ sdraws' = Append(sdraws, [kind |-> "first", value |-> b])
    /\ onset' = "Null"
    /\ UNCHANGED <<syls, count, nucleus, gvars, wvars>>

\* Syllable::new, no `prev`, the bool was false: Onset::random.
new_onset_first ==
    /\ spc = "onset"
    /\ \E o \in Onset_random :
         /\ onset' = o
         /\ sdraws' = Append(sdraws, [kind |-> "onset", value |-> o])
    /\ spc' = "nucleus"
    /\ UNCHANGED <<syls, count, nucleus, gvars, wvars>>

\* Syllable::new: Nucleus::random(rng, onset).
new_nucleus ==
    /\ spc = "nucleus"
    /\ \E n \in Nucleus_random(onset) :
         /\ nucleus' = n
         /\ sdraws' = Append(sdraws, [kind |-> "nucleus", value |-> n])
    /\ spc' = "coda"
    /\ UNCHANGED <<syls, count, onset, gvars, wvars>>

\* Syllable::new: Coda::random(rng) and the return of the Syllable, which the
\* name takes as its next syllable.
new_coda ==
    /\ spc = "coda"
    /\ \E b \in BOOLEAN :
         /\ syls' = Append(syls, SyllableOf(onset, nucleus, Coda_random(b)))
         /\ sdraws' = Append(sdraws, [kind |-> "coda", value |-> b])
    /\ spc' = IF Len(syls) + 1 < count THEN "new" ELSE "built"
    /\ UNCHANGED <<count, onset, nucleus, gvars, wvars>>

NextName ==
    \/ new_onset_prev
    \/ new_first
    \/ new_onset_first
    \/ new_nucleus
    \/ new_coda

Next == NextGenerate \/ NextName

Spec == Init /\ [][Next]_vars

\* The most syllables a candidate has.
SyllableBound == DivCeil(MaxLen, 3) + MaxExtra

\* The fewest and the most chars the running name() call can still push: a
\* syllable after the first is 2 or 3 chars, the first 1 to 3.
RestMin ==
    CASE pc = "initial" -> 1 + 2 * remaining
      [] pc = "syllable" -> 2 + 2 * remaining
      [] pc = "nucleus" -> 1 + 2 * remaining
      [] pc = "coda" -> 2 * remaining
      [] OTHER -> 0

RestMax ==
    CASE pc = "initial" -> 3 + 3 * remaining
      [] pc = "syllable" -> 3 + 3 * remaining
      [] pc = "nucleus" -> 2 + 3 * remaining
      [] pc = "coda" -> 1 + 3 * remaining
      [] OTHER -> 0

\* The candidate under construction can still come out inside the bounds.
Viable ==
    \/ pc \in {"generate", "done"}
    \/ \E n \in RestMin..RestMax : Accepts(Len(buf) + n, min_length, max_length)

\* A step that leaves the candidate able to come out inside the bounds.
ViableStep == NextGenerate /\ Viable'

\* The draws are random: every outcome of a draw has a positive probability,
\* so a draw made again and again with some outcome that leaves the candidate
\* viable takes such an outcome again and again. This is asked of the draws
\* whose outcome changes the length: the syllable count, the bool of initial,
\* and the coda bool of each syllable. The other steps are taken.
FairDraws ==
    /\ WF_vars(NextGenerate)
    /\ SF_vars(ViableStep /\ pc = "generate")
    /\ SF_vars(ViableStep /\ pc = "initial")
    /\ \A r \in 0..(SyllableBound - 1) :
           SF_vars(ViableStep /\ pc = "coda" /\ remaining = r)

\* generate alone, under random draws.
SpecGenerate == InitGenerate /\ [][NextGenerate]_vars /\ FairDraws

\* NameGenerator::new(6, Some(6)), then generate is called.
InitSix ==
    /\ GenerateCalled(6, Some(6))
    /\ NoSyllable
    /\ NoWrite

\* generate under the bounds (6, 6) and under the small bounds.
SpecSix == (InitSix \/ InitGenerate) /\ [][NextGenerate]_vars

\* generate(&self, rng, title_case) is called again on the same generator, after
\* a call returned.
generate_call ==
    /\ pc = "done"
    /\ title_case' \in BOOLEAN
    /\ pc' = "generate"
    /\ UNCHANGED <<generator, buf, syllables, remaining, tc, draws, svars, wvars>>

NextCalls == NextGenerate \/ generate_call

\* Calls of generate, one after the other, on one generator.
SpecCalls == InitGenerate /\ [][NextCalls]_vars

\* ------------------------------------------- src/lib.rs: NameGenerator::new

\* No distribution is stored before NameGenerator::new returns.
NotConstructed == [kind |-> "None", min |-> 0, lambda |-> 0]

\* The lengths NameGenerator::new is given: 1..NearEdge and
\* u32::MAX - NearEdge + 1 ..= u32::MAX.
NearEdges == (1..NearEdge) \cup {U32_MAX - k : k \in 0..(NearEdge - 1)}

\* One of `max + 1`, `min_length + 7`, `max_syllables - min_syllables` leaves
\* the range of u32.
NewOverflows(min, max) ==
    \/ (IF IsNone(max) THEN AddOverflows(min, 7) ELSE AddOverflows(max[1], 1))
    \/ SubOverflows(MaxSyllables(min, max), MinSyllables(min))

\* NameGenerator::new(min_length, max_length) is called with arguments that
\* meet the caller's obligation.
InitNew ==
    /\ min_length \in NearEdges
    /\ max_length \in {None} \cup {Some(m) : m \in {x \in NearEdges : ~U32Lt(x, min_length)}}
    /\ syllable_count = NotConstructed
    /\ title_case = FALSE
    /\ pc = "new"
    /\ buf = <<>>
    /\ syllables = 0
    /\ remaining = 0
    /\ tc = FALSE
    /\ draws = <<>>
    /\ NoSyllable
    /\ NoWrite

\* NameGenerator::new returns: every build when no operation overflows, a
\* release build (wrapping arithmetic) when one does.
new_return ==
    /\ pc = "new"
    /\ syllable_count' = NameGeneratorNew(min_length, max_length)
    /\ pc' = "constructed"
    /\ UNCHANGED <<min_length, max_length, title_case, buf, syllables,
                   remaining, tc, draws, svars, wvars>>

\* NameGenerator::new panics on an arithmetic overflow: a debug build.
new_panic ==
    /\ pc = "new"
    /\ NewOverflows(min_length, max_length)
    /\ pc' = "panic"
    /\ UNCHANGED <<generator, title_case, buf, syllables, remaining, tc, draws,
                   svars, wvars>>

NextNew == new_return \/ new_panic

SpecNew == InitNew /\ [][NextNew]_vars

\* ------------------------------------------- src/syllable.rs: Syllable::write

\* Text already in the buffer when write is called.
InitialBufs == {<<>>, <<107, 97>>}

\* The neighbours a call can be given.
Neighbour == {None} \cup {Some(s) : s \in Syllables}

\* Every script; at most one neighbour is present.
InitWrite ==
    /\ NoGenerate
    /\ NoSyllable
    /\ script \in Scripts
    /\ wself \in Syllables
    /\ wprev \in Neighbour
    /\ wnext \in (IF IsNone(wprev) THEN Neighbour ELSE {None})
    /\ out \in InitialBufs
    /\ wpc = "call"
    /\ out2 = <<>>
    /\ wpc2 = "idle"

\* The pushes made before a glyph table reaches `unreachable!()`.
BeforePanic(r) ==
    LET k == CHOOSE i \in 1..Len(r) :
                 r[i] = Unreachable /\ \A j \in 1..(i - 1) : r[j] # Unreachable
    IN SubSeq(r, 1, k - 1)

\* Syllable::write on the buffer b, leaving it as b_after. A glyph table that
\* reaches `unreachable!()` panics.
WriteInto(b, b_after, pc_after) ==
    LET r == Syllable_write(wself, b, script, wprev, wnext)
    IN IF \E k \in 1..Len(r) : r[k] = Unreachable
       THEN pc_after = "panic" /\ b_after = BeforePanic(r)
       ELSE pc_after = "written" /\ b_after = r

write ==
    /\ wpc = "call"
    /\ WriteInto(out, out', wpc')
    /\ UNCHANGED <<script, wself, wprev, wnext, out2, wpc2, gvars, svars>>

NextWrite == write

SpecWrite == InitWrite /\ [][NextWrite]_vars

\* Hebrew; every pair of neighbours.
InitHebrew ==
    /\ NoGenerate
    /\ NoSyllable
    /\ script = "Hebrew"
    /\ wself \in Syllables
    /\ wprev \in Neighbour
    /\ wnext \in Neighbour
    /\ out \in InitialBufs
    /\ wpc = "call"
    /\ out2 = <<>>
    /\ wpc2 = "idle"

SpecHebrew == InitHebrew /\ [][NextWrite]_vars

\* The scripts whose glyph tables have an `unreachable!()` arm.
PartialScripts ==
    {"Cyrillic", "Hangul", "Ascii", "Syllabics", "Hiragana", "Katakana"}

\* A syllable between two others, in a script whose tables have an
\* `unreachable!()` arm.
InitBetween ==
    /\ NoGenerate
    /\ NoSyllable
    /\ script \in PartialScripts
    /\ wself \in Syllables
    /\ wprev \in {Some(s) : s \in Syllables}
    /\ wnext \in {Some(s) : s \in Syllables}
    /\ out = <<>>
    /\ wpc = "call"
    /\ out2 = <<>>
    /\ wpc2 = "idle"

\* Every script with at most one neighbour, and the scripts of PartialScripts
\* with both.
SpecTables == (InitWrite \/ InitBetween) /\ [][NextWrite]_vars

\* The second Syllable::write call.
write_again ==
    /\ wpc2 = "call"
    /\ WriteInto(out2, out2', wpc2')
    /\ UNCHANGED <<script, wself, wprev, wnext, out, wpc, gvars, svars>>

\* Text in the buffer of the second call.
OtherBuf == <<107, 97>>

\* Two calls with the same syllable, neighbours and script: one on an empty
\* buffer, one on a buffer holding text.
InitTwice ==
    /\ NoGenerate
    /\ NoSyllable
    /\ script \in Scripts
    /\ wself \in Syllables
    /\ wprev \in Neighbour
    /\ wnext \in (IF IsNone(wprev) THEN Neighbour ELSE {None})
    /\ out = <<>>
    /\ wpc = "call"
    /\ out2 = OtherBuf
    /\ wpc2 = "call"

NextTwice == write \/ write_again

SpecTwice == InitTwice /\ [][NextTwice]_vars

\* -------------------------------------------------------------- properties

\* C1: a name generate returns is at least min_length long and, when
\* max_length is set, at most max_length long.
C1_ReturnedInBounds ==
    pc = "done" =>
        /\ Len(buf) >= min_length
        /\ (IF IsNone(max_length) THEN TRUE ELSE Len(buf) <= max_length[1])

\* generate has returned a name as long as the upper bound allows, under a
\* generator whose bounds differ.
C1_Witness ==
    /\ pc = "done"
    /\ ~IsNone(max_length)
    /\ min_length < max_length[1]
    /\ Len(buf) = max_length[1]

\* C2: in a finished name built by Syllable::new no syllable with coda N is
\* followed by a syllable with onset M or N; in the string-based builder no
\* coda 'n' (an 'n' not followed by a vowel) is followed by an onset 'm' or 'n'.
C2_NoNasalAfterCodaN ==
    /\ spc = "built" =>
           \A i \in 1..(Len(syls) - 1) :
               ~(syls[i].coda = "N" /\ syls[i + 1].onset \in {"M", "N"})
    /\ \A i \in 1..(Len(buf) - 1) :
           buf[i] = "n" => buf[i + 1] \notin {"m", "n", "M", "N"}

\* A finished two-syllable name whose first syllable drew coda N and lost it
\* to the second syllable's onset N.
C2_Witness ==
    /\ spc = "built"
    /\ Len(syls) = 2
    /\ syls[2].onset = "N"
    /\ syls[1].coda = "Null"
    /\ \E k \in 1..Len(sdraws) :
           /\ sdraws[k].kind = "coda"
           /\ sdraws[k].value
           /\ \E j \in (k + 1)..Len(sdraws) : sdraws[j].kind = "coda"

\* The onset a char of the string-based builder spells, in either case.
OnsetOfChar(c) ==
    CASE c \in {"t", "T"} -> "T"
      [] c \in {"j", "J"} -> "J"
      [] c \in {"w", "W"} -> "W"
      [] OTHER -> "Null"

\* The nucleus exclusion: T or J with I, W with O or U.
Excluded(o, n) ==
    \/ o \in {"T", "J"} /\ n \in {"I", "i"}
    \/ o = "W" /\ n \in {"O", "o", "U", "u"}

\* C3: no syllable, in any position and in either generation mode, pairs
\* onset T or J with nucleus I, or onset W with nucleus O or U.
C3_NucleusExclusion ==
    /\ \A i \in 1..Len(syls) : ~Excluded(syls[i].onset, syls[i].nucleus)
    /\ \A i \in 1..(Len(buf) - 1) : ~Excluded(OnsetOfChar(buf[i]), buf[i + 1])

\* C4: every (onset, nucleus, coda) outside the nucleus exclusion has a glyph
\* in the Hangul table and in the Syllabics table, and writing it in either
\* script reaches no `unreachable!()` arm.
C4_TablesCover ==
    ~Excluded(wself.onset, wself.nucleus) =>
        /\ Syllable_hangul_char(wself.onset, wself.nucleus, wself.coda) # Unreachable
        /\ Onset_syllabics_char(wself.onset, wself.nucleus) # Unreachable
        /\ script \in {"Hangul", "Syllabics"} => wpc # "panic"

\* A syllable next to the excluded pairs (onset W, nucleus I, coda N) has been
\* written in Syllabics.
C4_Witness ==
    /\ wpc = "written"
    /\ script = "Syllabics"
    /\ wself = SyllableOf("W", "I", "N")
    /\ Len(out) >= 2

\* C5: for every valid bounds pair the loop of generate reaches acceptance:
\* under random draws generate eventually returns.
C5_EventuallyReturns == <>(pc = "done")

\* generate has returned a name under bounds that leave one length only, which
\* a candidate of the stored syllable count can miss on either side.
C5_Witness ==
    /\ pc = "done"
    /\ max_length = Some(min_length)
    /\ min_length = MaxLen
    /\ Len(buf) = MaxLen

\* C6 as stated: a generator constructed with (6, 6) draws every candidate
\* with the same number of syllables, and every accepted candidate has
\* length 6.
C6_FixedCount ==
    (min_length = 6 /\ max_length = Some(6)) =>
        /\ pc # "generate" => syllables = syllable_count.min
        /\ pc = "done" => Len(buf) = 6

\* C6 as the code has it: a generator constructed with (6, 6) stores
\* Poisson(2, 1), so candidates have 2 syllables or more, a number drawn anew in
\* each attempt; every accepted candidate has length 6.
C6_PoissonCountLengthSix ==
    (min_length = 6 /\ max_length = Some(6)) =>
        /\ syllable_count = Poisson(2, 1)
        /\ pc # "generate" => syllables >= 2
        /\ pc = "done" => Len(buf) = 6

\* generate has returned a name of 6 chars in 3 syllables.
C6_Witness ==
    /\ pc = "done"
    /\ min_length = 6
    /\ max_length = Some(6)
    /\ syllables = 3
    /\ Len(buf) = 6

\* The glyphs a write step appends to the buffer.
Appended == SubSeq(out', Len(out) + 1, Len(out'))

\* An Orkhon write step of a syllable whose previous syllable has coda N.
OrkhonAfterCodaN ==
    /\ write
    /\ script = "Orkhon"
    /\ ~IsNone(wprev)
    /\ wprev[1].coda = "N"

\* The Orkhon letters A, I, E and O/U.
OrkhonVowels == {68608, 68611, 68613, 68614}

C8_HebrewFinalNun ==
    [][(write /\ script = "Hebrew") =>
          /\ wself.coda = "N" =>
                 /\ Len(Appended) = 3
                 /\ Appended[3] \in {1503, 1504}
                 /\ Appended[3] = 1503 <=> IsNone(wnext)
          /\ wself.coda = "Null" => Len(Appended) = 2]_vars

\* A syllable with coda N between two neighbours has been written in Hebrew
\* with the medial letterform.
C8_Witness ==
    /\ wpc = "written"
    /\ script = "Hebrew"
    /\ wself.coda = "N"
    /\ ~IsNone(wprev)
    /\ ~IsNone(wnext)
    /\ out[Len(out)] = 1504

KindAfter(d) ==
    CASE d.kind = "count" -> "initial"
      [] d.kind = "initial" -> IF d.value THEN "nucleus" ELSE "onset"
      [] d.kind = "onset" -> "nucleus"
      [] d.kind = "nucleus" -> "coda"
      [] d.kind = "coda" -> "onset"

\* The kind of draw that follows the draw d of Syllable::new calls.
NewKindAfter(d) ==
    CASE d.kind = "first" -> IF d.value THEN "nucleus" ELSE "onset"
      [] d.kind = "onset" -> "nucleus"
      [] d.kind = "nucleus" -> "coda"
      [] d.kind = "coda" -> "onset"

\* The chars the first n draws of d spell, the first char in upper case when
\* upper is set.
RECURSIVE Spelled(_, _, _)
Spelled(d, n, upper) ==
    IF n = 0 THEN <<>>
    ELSE LET s == Spelled(d, n - 1, upper)
             x == d[n]
         IN CASE x.kind \in {"onset", "nucleus"} ->
                     Append(s, IF upper /\ Len(s) = 0
                               THEN ToAsciiUppercase(x.value) ELSE x.value)
              [] x.kind = "coda" -> IF x.value THEN Append(s, "n") ELSE s
              [] OTHER -> s

\* The syllables the first n draws of d build.
RECURSIVE Built(_, _)
Built(d, n) ==
    IF n = 0 THEN <<>>
    ELSE LET s == Built(d, n - 1)
             x == d[n]
         IN CASE x.kind = "onset" /\ Len(s) > 0 /\ x.value \in {"M", "N"} ->
                     [s EXCEPT ![Len(s)] = [@ EXCEPT !.coda = "Null"]]
              [] x.kind = "coda" ->
                     Append(s, [onset |-> IF d[n - 2].kind = "onset"
                                          THEN d[n - 2].value ELSE "Null",
                                nucleus |-> d[n - 1].value,
                                coda |-> IF x.value THEN "N" ELSE "Null"])
              [] OTHER -> s

\* C10: the draws of a name come in one order - the syllable count first, and
\* only when the distribution is not Fixed; then per syllable the onset
\* draw(s), the nucleus draw and the coda draw, syllable after syllable - and
\* the name is the one the sequence of draw results spells.
C10_DrawOrder ==
    /\ \A i \in 1..Len(draws) :
           /\ draws[i].kind = "count" <=> (i = 1 /\ syllable_count.kind = "Poisson")
           /\ i = 1 => draws[i].kind \in {"count", "initial"}
           /\ i > 1 => draws[i].kind = KindAfter(draws[i - 1])
    /\ buf = Spelled(draws, Len(draws), title_case)
    /\ \A i \in 1..Len(sdraws) :
           /\ i = 1 => sdraws[i].kind = "first"
           /\ i > 1 => sdraws[i].kind = NewKindAfter(sdraws[i - 1])
    /\ syls = Built(sdraws, Len(sdraws))

\* generate has returned a title-case name of two syllables that took a count
\* draw, the bool of initial and two rounds of onset, nucleus and coda.
C10_Witness ==
    /\ pc = "done"
    /\ title_case
    /\ syllable_count.kind = "Poisson"
    /\ Len(draws) = 8
    /\ draws[8].kind = "coda"

\* The outcome of random_bool(percent) that has the lower weight.
LowestBool(percent) ==
    CHOOSE b \in BOOLEAN : \A c \in BOOLEAN : BoolWeight(percent, b) <= BoolWeight(percent, c)

\* The onset and the nucleus of lowest weight among those a draw can return
\* after the char `last`.
LowestOnset(last) ==
    CHOOSE v \in OnsetChoices(last) :
        \A w \in OnsetChoices(last) : OnsetWeight(v, last) <= OnsetWeight(w, last)

LowestNucleus(last) ==
    CHOOSE v \in NucleusChoices(last) :
        \A w \in NucleusChoices(last) : NucleusWeight(v, last) <= NucleusWeight(w, last)

\* Every draw of the running name() call took its lowest-weighted outcome; the
\* Poisson sample, which has no outcome of lowest weight, was 0.
AllLowest ==
    \A i \in 1..Len(draws) :
        LET d == draws[i]
            last == Last(Spelled(draws, i - 1, title_case))
        IN CASE d.kind = "count" -> d.value = 0
             [] d.kind = "initial" -> d.value = LowestBool(INITIAL_NUCLEUS_PERCENT)
             [] d.kind = "onset" -> d.value = LowestOnset(last)
             [] d.kind = "nucleus" -> d.value = LowestNucleus(last)
             [] d.kind = "coda" -> d.value = LowestBool(CODA_PERCENT)

\* A name returned by the generator of (1, None) on lowest-weighted draws.
LowestReturned ==
    /\ min_length = 1
    /\ IsNone(max_length)
    /\ pc = "done"
    /\ AllLowest

\* C11 as stated: with (1, None) and every draw taking its lowest-weighted
\* branch, generate returns one syllable of length 1: a nucleus with no onset
\* and no coda.
C11_LowestIsBareNucleus ==
    LowestReturned =>
        /\ syllables = 1
        /\ Len(buf) = 1
        /\ buf[1] \in {"a", "e", "i", "o", "u", "A", "E", "I", "O", "U"}

\* C11 as the code has it: the lowest-weighted branch of the coda bool
\* (0.06) is the one that pushes 'n', so generate returns the one-syllable
\* name "un" ("Un" in title case): no onset, nucleus u, coda n, length 2.
C11_LowestIsUn ==
    LowestReturned =>
        /\ syllables = 1
        /\ buf = <<IF title_case THEN "U" ELSE "u", "n">>

\* generate has returned under (1, None) after lowest-weighted draws: the
\* count, the bool of initial, a nucleus and a coda bool.
C11_Witness ==
    /\ LowestReturned
    /\ Len(draws) = 4
    /\ ~title_case
    /\ buf = <<"u", "n">>

\* The values the specification gives, computed without an operation that can
\* leave the range of u32: ceil(min / 3), (max + 1) div 2 = max div 2 + max mod 2
\* and (min + 7) div 2 = min div 2 + (min mod 2 + 7) div 2.
StatedMin(min) == U32Div(min, 3) + (IF U32Rem(min, 3) = 0 THEN 0 ELSE 1)

StatedMax(min, max) ==
    IF IsNone(max)
    THEN U32Add(U32Div(min, 2), (U32Rem(min, 2) + 7) \div 2)
    ELSE U32Add(U32Div(max[1], 2), U32Rem(max[1], 2))

StatedDistribution(min, max) ==
    IF StatedMin(min) = StatedMax(min, max)
    THEN Fixed(StatedMin(min))
    ELSE Poisson(StatedMin(min), U32Sub(StatedMax(min, max), StatedMin(min)))

\* C12: NameGenerator::new computes min_syllables = ceil(min_length / 3) and
\* max_syllables = (max_length + 1) div 2, or (min_length + 7) div 2 without a
\* maximum, and stores Fixed(min_syllables) exactly when the two are equal and
\* otherwise the Poisson distribution with minimum min_syllables and rate
\* max_syllables - min_syllables.
C12_NewComputes ==
    pc \in {"constructed", "panic"} =>
        /\ pc = "constructed"
        /\ syllable_count = StatedDistribution(min_length, max_length)

\* C12 on the calls in which no operation of NameGenerator::new overflows.
C12_NewComputesInRange ==
    (pc \in {"constructed", "panic"} /\ ~NewOverflows(min_length, max_length)) =>
        /\ pc = "constructed"
        /\ syllable_count = StatedDistribution(min_length, max_length)


\* The draws of the running name() call before draw i belong to the first
\* syllable's choice of path.
BeforeFirstNucleus(i) ==
    \A j \in 1..(i - 1) : draws[j].kind \in {"count", "initial"}

\* C13: only the first syllable of a name can have a null onset: every syllable
\* built with a previous syllable has an onset among P, T, K, S, M, N, L, J, W
\* and so a display length of 2 or 4, and in the string generator every nucleus
\* draw but the first syllable's follows an onset draw.
C13_OnlyFirstOnsetNull ==
    /\ \A i \in 2..Len(syls) :
          /\ syls[i].onset \in {"P", "T", "K", "S", "M", "N", "L", "J", "W"}
          /\ Syllable_len(syls[i]) \in {2, 4}
    /\ (spc \in {"nucleus", "coda"} /\ Len(syls) >= 1) =>
          onset \in {"P", "T", "K", "S", "M", "N", "L", "J", "W"}
    /\ \A i \in 1..Len(draws) :
          (draws[i].kind = "nucleus" /\ ~BeforeFirstNucleus(i)) =>
              draws[i - 1].kind = "onset"

\* A two-syllable name whose first onset is null and whose second syllable has
\* the coda N (display length 4).
C13_Witness ==
    /\ spc = "built"
    /\ Len(syls) = 2
    /\ syls[1].onset = "Null"
    /\ syls[2].onset = "L"
    /\ syls[2].coda = "N"
    /\ Syllable_len(syls[2]) = 4


\* C14: a step of Syllable::new changes no syllable built before but the
\* immediately preceding one, of which it changes at most the coda, to none, and
\* only as it draws the onset M or N; the onset and the nucleus of every syllable
\* built stay, and no coda goes from none to N.
C14_NewFrame ==
    [][\A i \in 1..Len(syls) :
          /\ Len(syls') >= Len(syls)
          /\ syls'[i].onset = syls[i].onset
          /\ syls'[i].nucleus = syls[i].nucleus
          /\ (i < Len(syls) => syls'[i] = syls[i])
          /\ (syls[i].coda = "Null" => syls'[i].coda = "Null")
          /\ (syls'[i] # syls[i] =>
                /\ spc = "new"
                /\ onset' \in {"M", "N"}
                /\ syls'[i].coda = "Null")]_vars

\* The second syllable drew the coda N, and the third syllable's onset M took it
\* away, the first syllable being left as built.
C14_Witness ==
    /\ Len(syls) = 2
    /\ spc = "nucleus"
    /\ onset = "M"
    /\ sdraws[Len(sdraws) - 1] = [kind |-> "coda", value |-> TRUE]
    /\ syls[2].coda = "Null"
    /\ syls[1].coda = "N"


\* C15: every attempt of generate's loop starts its candidate from an empty
\* String and a syllable count taken from the stored distribution alone, so the
\* name returned is spelled by the draws of the last attempt only; no step of
\* generate, and no further call, changes min_length, max_length or the stored
\* distribution.
C15_AttemptsFromEmpty ==
    [][/\ generator' = generator
       /\ (pc = "generate" =>
              /\ buf' = <<>>
              /\ syllables' \in {syllable_count.min + x : x \in 0..MaxExtra}
              /\ remaining' = syllables' - 1
              /\ draws' \in {<<>>} \cup {<<[kind |-> "count", value |-> x]>> : x \in 0..MaxExtra})
       /\ (pc = "check" => buf' = buf)
       /\ (pc' = "done" => buf' = Spelled(draws', Len(draws'), title_case'))]_vars

\* The loop of generate rejected a candidate and is about to build the next.
C15_Witness ==
    /\ pc = "generate"
    /\ buf # <<>>
    /\ ~Accepts(Len(buf), min_length, max_length)


\* C16: writing a syllable Syllable::new can return, with any neighbours and in
\* any script, reaches no `unreachable!()` arm: the Ascii, Hiragana and Katakana
\* tables have a glyph for it, the Cyrillic onset table is consulted only for an
\* onset other than J and has a glyph for each, and the Cyrillic iotated-nucleus
\* table is consulted only for onset J, which never comes with nucleus I.
C16_NoUnreachableArm ==
    /\ wpc # "panic"
    /\ \A k \in 1..Len(out) : out[k] # Unreachable
    /\ Syllable_ascii_char(wself.onset, wself.nucleus, wself.coda) # Unreachable
    /\ Onset_hiragana_char(wself.onset, wself.nucleus) # Unreachable
    /\ Onset_katakana_char(wself.onset, wself.nucleus) # Unreachable
    /\ IF wself.onset = "J"
       THEN /\ wself.nucleus # "I"
            /\ Nucleus_iotated_cyrillic_char(wself.nucleus) # Unreachable
       ELSE Onset_cyrillic_char(wself.onset) # <<Unreachable>>

\* The syllable (J, U, N) between two others has been written in Cyrillic.
C16_Witness ==
    /\ wpc = "written"
    /\ script = "Cyrillic"
    /\ wself = SyllableOf("J", "U", "N")
    /\ ~IsNone(wprev)
    /\ ~IsNone(wnext)
    /\ Len(out) = 2


IsUpperChar(c) == \E k \in 1..26 : UpperCase[k] = c

\* char::to_ascii_lowercase, and a String lower-cased char by char.
ToAsciiLowercase(c) ==
    IF IsUpperChar(c) THEN LowerCase[CHOOSE k \in 1..26 : UpperCase[k] = c] ELSE c

LowerCased(s) == [i \in 1..Len(s) |-> ToAsciiLowercase(s[i])]

\* Every onset and nucleus draw of the running name() call is one the plain
\* generator (title_case = false) can take at the same place.
PlainCanDraw ==
    \A i \in 1..Len(draws) :
        LET last == Last(Spelled(draws, i - 1, FALSE))
        IN /\ draws[i].kind = "onset" => draws[i].value \in OnsetChoices(last)
           /\ draws[i].kind = "nucleus" => draws[i].value \in NucleusChoices(last)

\* The name generate returned in title case has one upper-case letter, its
\* first, and lower-cased it is what its draws spell in plain mode.
C17_TitleCaseShape ==
    (pc = "done" /\ title_case) =>
        /\ IsUpperChar(buf[1])
        /\ \A i \in 2..Len(buf) : ~IsUpperChar(buf[i])
        /\ LowerCased(buf) = Spelled(draws, Len(draws), FALSE)

\* C17: the title-cased Latin output of a name has exactly one upper-case
\* letter, the first of the output, every other letter being lower-case, and
\* lower-cased it is the plain Latin output: the name the plain generator
\* returns on the same draws.
C17_TitleCaseIsPlainCapitalised ==
    (pc = "done" /\ title_case) =>
        /\ IsUpperChar(buf[1])
        /\ \A i \in 2..Len(buf) : ~IsUpperChar(buf[i])
        /\ LowerCased(buf) = Spelled(draws, Len(draws), FALSE)
        /\ PlainCanDraw

\* Syllable::write in LatinTitleCase: the first syllable (no prev) gets one
\* upper-case glyph, its first; a later syllable gets none; the glyphs pushed,
\* lower-cased, are those pushed in Latin.
C17_TitleCaseWrite ==
    [][(write /\ script = "LatinTitleCase") =>
          LET a == Appended
              plain == SubSeq(Syllable_write(wself, out, "Latin", wprev, wnext),
                              Len(out) + 1, Len(out) + Len(a))
          IN /\ Len(a) >= 1
             /\ a[1] \in (IF IsNone(wprev) THEN 65..90 ELSE 97..122)
             /\ \A k \in 2..Len(a) : a[k] \in 97..122
             /\ Len(Syllable_write(wself, out, "Latin", wprev, wnext)) = Len(out')
             /\ plain = [k \in 1..Len(a) |-> IF a[k] \in 65..90 THEN a[k] + 32 ELSE a[k]]
             /\ (IsNone(wprev) /\ wself.onset # "Null") =>
                    <<a[1] + 32>> = Onset_latin_char(wself.onset)
             /\ (IsNone(wprev) /\ wself.onset = "Null") =>
                    a[1] + 32 = Nucleus_latin_char(wself.nucleus)]_vars


\* The iotated Cyrillic letters ya, ye, yo, yu.
IotatedGlyph(n) ==
    CASE n = "A" -> 1103
      [] n = "E" -> 1077
      [] n = "O" -> 1105
      [] n = "U" -> 1102

\* C18: a Cyrillic write of a syllable with onset J pushes one glyph for the
\* onset and the nucleus together, the iotated nucleus letter, and no onset
\* glyph; with any other onset it pushes the onset glyph (none for the null
\* onset) and then the plain nucleus glyph; the coda glyph follows in both
\* cases.
C18_CyrillicIotation ==
    [][(write /\ script = "Cyrillic") =>
          LET a == Appended
              c == Coda_cyrillic_char(wself.coda)
          IN /\ Len(c) = (IF wself.coda = "N" THEN 1 ELSE 0)
             /\ IF wself.onset = "J"
                THEN /\ a = <<IotatedGlyph(wself.nucleus)>> \o c
                     /\ \A o \in Onsets \ {"J"} : a[1] \notin {Onset_cyrillic_char(o)[k] : k \in 1..Len(Onset_cyrillic_char(o))}
                ELSE /\ a = Onset_cyrillic_char(wself.onset)
                             \o <<Nucleus_cyrillic_char(wself.nucleus)>> \o c
                     /\ Len(Onset_cyrillic_char(wself.onset))
                            = (IF wself.onset = "Null" THEN 0 ELSE 1)]_vars

\* The syllable (J, A, N) has been written in Cyrillic after text: two glyphs,
\* ya and n.
C18_Witness ==
    /\ wpc = "written"
    /\ script = "Cyrillic"
    /\ wself = SyllableOf("J", "A", "N")
    /\ out = <<107, 97, 1103, 1085>>


\* The dependent vowel signs (modifier glyphs) of a script.
Modifiers(s) ==
    CASE s = "Devanagari" -> {2366, 2367, 2369, 2375, 2379}
      [] s = "Gujarati" -> {2750, 2752, 2754, 2759, 2763}
      [] s = "Kannada" -> {3262, 3263, 3265, 3270, 3274}

\* The glyphs a write step in an abugida script appends before the coda's.
Akshara ==
    LET c == CASE script = "Devanagari" -> Coda_devanagari_char(wself.coda)
               [] script = "Gujarati" -> Coda_gujarati_char(wself.coda, IsNone(wnext))
               [] script = "Kannada" -> Coda_kannada_char(wself.coda, IsNone(wnext))
    IN SubSeq(Appended, 1, Len(Appended) - Len(c))

\* The consonant glyph of the syllable written, if its onset has one.
Consonant ==
    CASE script = "Devanagari" -> Onset_devanagari_char(wself.onset)
      [] script = "Gujarati" -> Onset_gujarati_char(wself.onset)
      [] script = "Kannada" -> Onset_kannada_char(wself.onset)

\* The write step pushes for onset and nucleus: the consonant glyph alone
\* (signs = 0) or the consonant glyph and one modifier glyph (signs = 1) when the
\* onset is not null, and one glyph that is no modifier when it is null.
AksharaHas(signs) ==
    IF wself.onset # "Null"
    THEN /\ Len(Akshara) = 1 + signs
         /\ <<Akshara[1]>> = Consonant
         /\ Akshara[1] \notin Modifiers(script)
         /\ signs = 1 => Akshara[2] \in Modifiers(script)
    ELSE /\ Len(Akshara) = 1
         /\ Akshara[1] \notin Modifiers(script)
         /\ Consonant = <<>>

\* C19 as stated: in Devanagari, Gujarati and Kannada alike a non-null onset with
\* nucleus A is written as the consonant glyph without modifier, with another
\* nucleus as the consonant glyph and exactly one modifier, and a null onset as
\* the independent vowel glyph without modifier.
C19_InherentA ==
    [][(write /\ script \in {"Devanagari", "Gujarati", "Kannada"}) =>
          AksharaHas(IF wself.nucleus = "A" THEN 0 ELSE 1)]_vars

\* C19 amended: as stated in Devanagari and Kannada; in Gujarati a non-null
\* onset is followed by exactly one modifier for every nucleus, A included (the
\* sign aa, U+0ABE).
C19_InherentAButGujarati ==
    [][(write /\ script \in {"Devanagari", "Gujarati", "Kannada"}) =>
          /\ AksharaHas(IF wself.nucleus = "A" /\ script # "Gujarati" THEN 0 ELSE 1)
          /\ (script = "Gujarati" /\ wself.onset # "Null" /\ wself.nucleus = "A") =>
                 Akshara[2] = 2750]_vars

\* The syllable (K, A) has been written in Gujarati: ka and the sign aa.
C19_Witness ==
    /\ wpc = "written"
    /\ script = "Gujarati"
    /\ wself = SyllableOf("K", "A", "Null")
    /\ out = <<2709, 2750>>


\* The virama and the consonant na of Gujarati and of Kannada.
Virama(s) == IF s = "Gujarati" THEN 2765 ELSE 3277

Na(s) == IF s = "Gujarati" THEN 2728 ELSE 3240

\* The glyphs the same syllable's coda gets when it does, or does not, have a
\* next syllable.
CodaGlyphsAt(final) ==
    IF script = "Gujarati" THEN Coda_gujarati_char(wself.coda, final)
    ELSE Coda_kannada_char(wself.coda, final)

\* The glyphs a write step appends for the coda: those after the akshara.
CodaGlyphs ==
    SubSeq(Appended, Len(Appended) - Len(CodaGlyphsAt(IsNone(wnext))) + 1, Len(Appended))

\* C20 as stated: in Gujarati and in Kannada the coda N of a word-final syllable
\* (no next) is written as the consonant na followed by the virama, and that of
\* a non-final syllable as another glyph sequence.
C20_FinalNasalVirama ==
    [][(write /\ script \in {"Gujarati", "Kannada"} /\ wself.coda = "N") =>
          /\ IsNone(wnext) => CodaGlyphs = <<Na(script), Virama(script)>>
          /\ ~IsNone(wnext) => CodaGlyphs # <<Na(script), Virama(script)>>
          /\ CodaGlyphsAt(TRUE) # CodaGlyphsAt(FALSE)]_vars

\* C20 amended: the two positions get different glyph sequences in both scripts.
\* In Kannada the final coda N is na and virama and the non-final one the
\* anusvara; in Gujarati it is the non-final coda N that is na and virama, the
\* final one being the bare consonant na.
C20_FinalNasalPerScript ==
    [][(write /\ script \in {"Gujarati", "Kannada"} /\ wself.coda = "N") =>
          /\ CodaGlyphsAt(TRUE) # CodaGlyphsAt(FALSE)
          /\ CodaGlyphs = CodaGlyphsAt(IsNone(wnext))
          /\ (script = "Kannada" /\ IsNone(wnext)) =>
                 CodaGlyphs = <<Na(script), Virama(script)>>
          /\ (script = "Kannada" /\ ~IsNone(wnext)) => CodaGlyphs = <<3202>>
          /\ (script = "Gujarati" /\ IsNone(wnext)) => CodaGlyphs = <<Na(script)>>
          /\ (script = "Gujarati" /\ ~IsNone(wnext)) =>
                 CodaGlyphs = <<Na(script), Virama(script)>>]_vars

\* The word-final syllable (K, I, N) has been written in Gujarati after a
\* previous syllable: ka, the sign i, and na without virama.
C20_Witness ==
    /\ wpc = "written"
    /\ script = "Gujarati"
    /\ wself = SyllableOf("K", "I", "N")
    /\ ~IsNone(wprev)
    /\ IsNone(wnext)
    /\ out = <<2709, 2752, 2728>>


\* The glyphs an Orkhon write step appends for the coda: those after the glyphs
\* the same syllable gets without its coda.
OrkhonCodaGlyphs ==
    SubSeq(out',
           Len(Syllable_write([wself EXCEPT !.coda = "Null"], out, script, wprev, wnext)) + 1,
           Len(out'))

\* The glyphs of the Orkhon write of the syllable t that follows wself.
OrkhonOfNext(t) == Syllable_write(t, <<>>, "Orkhon", Some(wself), None)

\* C21: in Orkhon, for a syllable s with coda N followed by t, the coda glyph
\* of s is left out exactly when t's onset is J or T, and exactly then t's
\* onset is written with a nasal-ligature glyph; a coda glyph that is written is
\* the back nasal when there is a next syllable with nucleus A, O or U and the
\* front nasal otherwise, the last syllable included.
C21_OrkhonNasalPair ==
    [][(write /\ script = "Orkhon" /\ wself.coda = "N") =>
          /\ SubSeq(out', 1, Len(out') - Len(OrkhonCodaGlyphs))
                = Syllable_write([wself EXCEPT !.coda = "Null"], out, script, wprev, wnext)
          /\ IF IsNone(wnext)
             THEN OrkhonCodaGlyphs = <<68644>>
             ELSE LET t == wnext[1]
                  IN /\ (OrkhonCodaGlyphs = <<>>) <=> (t.onset \in {"J", "T"})
                     /\ (OrkhonOfNext(t)[1] \in {68646, 68650}) <=> (t.onset \in {"J", "T"})
                     /\ t.onset = "T" => OrkhonOfNext(t)[1] = 68646
                     /\ t.onset = "J" => OrkhonOfNext(t)[1] = 68650
                     /\ t.onset \notin {"J", "T"} =>
                            OrkhonCodaGlyphs =
                                <<IF t.nucleus \in {"A", "O", "U"} THEN 68643 ELSE 68644>>]_vars

\* The syllable (K, A, N) has been written in Orkhon before a syllable with
\* onset T: its coda has no glyph.
C21_Witness ==
    /\ wpc = "written"
    /\ script = "Orkhon"
    /\ wself = SyllableOf("K", "A", "N")
    /\ wnext = Some(SyllableOf("T", "A", "Null"))
    /\ out = <<68660>>


\* The flag Onset::orkhon_char returns with the glyph of the syllable written:
\* true for the onsets that have a back and a front glyph, T and J after a coda
\* N excepted.
HasBackness ==
    \/ wself.onset \in {"P", "K", "S", "N", "L"}
    \/ wself.onset \in {"T", "J"} /\ ~PrevCodaN(wprev)

\* The glyphs an Orkhon write step appends between the onset's and the coda's.
OrkhonNucleusGlyphs ==
    SubSeq(Appended,
           Len(Onset_orkhon_char(wself.onset, wprev, Nucleus_is_back(wself.nucleus))[1]) + 1,
           Len(Appended) - Len(Coda_orkhon_char(wself.coda, wnext)))

\* C22 as stated: an Orkhon write whose onset glyph choice returns the flag true
\* appends no vowel glyph for the nucleus; with the flag false it appends the
\* nucleus glyph.
C22_FlagSuppressesVowel ==
    [][(write /\ script = "Orkhon") =>
          /\ HasBackness = Onset_orkhon_char(wself.onset, wprev, Nucleus_is_back(wself.nucleus))[2]
          /\ HasBackness => OrkhonNucleusGlyphs = <<>>
          /\ ~HasBackness =>
                 /\ Len(OrkhonNucleusGlyphs) = 1
                 /\ OrkhonNucleusGlyphs[1] \in OrkhonVowels]_vars

\* C22 amended: with the flag true the nucleus glyph is left out for the nuclei
\* A and I only; E, O and U are written whatever the flag; with the flag false
\* every nucleus is written.
C22_FlagSuppressesAAndI ==
    [][(write /\ script = "Orkhon") =>
          /\ HasBackness = Onset_orkhon_char(wself.onset, wprev, Nucleus_is_back(wself.nucleus))[2]
          /\ (HasBackness /\ wself.nucleus \in {"A", "I"}) => OrkhonNucleusGlyphs = <<>>
          /\ (~HasBackness \/ wself.nucleus \in {"E", "O", "U"}) =>
                 OrkhonNucleusGlyphs =
                     <<CASE wself.nucleus = "A" -> 68608
                         [] wself.nucleus = "I" -> 68611
                         [] wself.nucleus = "E" -> 68613
                         [] wself.nucleus \in {"O", "U"} -> 68614>>]_vars

\* The syllable (K, E) has been written in Orkhon: the front K, whose flag is
\* true, and the letter E.
C22_Witness ==
    /\ wpc = "written"
    /\ script = "Orkhon"
    /\ wself = SyllableOf("K", "E", "Null")
    /\ out = <<68634, 68613>>


\* C23: an Orkhon write of a syllable with onset W appends no onset glyph
\* exactly when there is a previous syllable with nucleus O or U and no coda;
\* otherwise (no previous syllable, previous nucleus A, E or I, previous coda N)
\* it appends the glyph of W; in both cases the nucleus glyph is appended, so
\* the syllable is never written as nothing.
C23_OrkhonGlideElision ==
    [][(write /\ script = "Orkhon" /\ wself.onset = "W") =>
          LET elided == /\ ~IsNone(wprev)
                        /\ wprev[1].nucleus \in {"O", "U"}
                        /\ wprev[1].coda = "Null"
              vowel == CASE wself.nucleus = "A" -> 68608
                         [] wself.nucleus = "I" -> 68611
                         [] wself.nucleus = "E" -> 68613
                         [] wself.nucleus \in {"O", "U"} -> 68614
              c == Coda_orkhon_char(wself.coda, wnext)
          IN /\ Len(Appended) >= 1
             /\ Appended = (IF elided THEN <<>> ELSE <<68614>>) \o <<vowel>> \o c]_vars

\* The syllable (W, A) has been written in Orkhon after (K, O): the letter A
\* alone.
C23_Witness ==
    /\ wpc = "written"
    /\ script = "Orkhon"
    /\ wself = SyllableOf("W", "A", "Null")
    /\ wprev = Some(SyllableOf("K", "O", "Null"))
    /\ out = <<68608>>


\* No subtraction of the generator underflows on the stored distribution:
\* min_syllables <= max_syllables in new, and min_syllables >= 1, so that
\* `syllables - 1` in name() is not below zero for any sample.
NoUnderflow ==
    /\ ~SubOverflows(MaxSyllables(min_length, max_length), MinSyllables(min_length))
    /\ syllable_count.min # 0
    /\ \A x \in 0..MaxExtra : ~SubOverflows(U32Add(syllable_count.min, x), 1)

\* With min_length = 0 the stored minimum is 0, and the syllable count 0 (the
\* Fixed count, or the sample 0) makes `syllables - 1` underflow.
ZeroUnderflows ==
    /\ NameGeneratorNew(0, None) = Poisson(0, 3)
    /\ NameGeneratorNew(0, Some(0)) = Fixed(0)
    /\ SubOverflows(U32Add(NameGeneratorNew(0, None).min, 0), 1)
    /\ SubOverflows(NameGeneratorNew(0, Some(0)).min, 1)

\* C24: for every valid bounds pair (min_length >= 1, max_length absent or at
\* least min_length) no unsigned subtraction of the generator underflows -
\* min_syllables <= max_syllables in new, and every syllable count is at least
\* min_syllables >= 1 in name - while with min_length = 0 a syllable count of 0
\* is reachable and `syllables - 1` underflows.
C24_NoUnderflow ==
    /\ (pc = "constructed" /\ ValidBounds(min_length, max_length)) => NoUnderflow
    /\ ZeroUnderflows

\* C24 on the calls of NameGenerator::new in which no addition overflows.
C24_NoUnderflowInRange ==
    /\ (/\ pc = "constructed"
        /\ ValidBounds(min_length, max_length)
        /\ ~(IF IsNone(max_length) THEN AddOverflows(min_length, 7)
             ELSE AddOverflows(max_length[1], 1))) => NoUnderflow
    /\ ZeroUnderflows

\* While name() runs under valid bounds the syllable count is at least
\* min_syllables >= 1 and the loop bound `syllables - 1` is not below zero.
C24_CountAtLeastOne ==
    pc \in {"initial", "syllable", "nucleus", "coda", "check", "done"} =>
        /\ syllable_count.min >= 1
        /\ syllables >= syllable_count.min
        /\ ~SubOverflows(syllables, 1)
        /\ remaining >= 0

====
